---- MODULE Spec2Model ----
(***************************************************************************)
(* CornerBrand: batch orchestrator, cancellation registry and output-path  *)
(* allocator (src-tauri/src/batch.rs, path_policy.rs, lib.rs).             *)
(*                                                                         *)
(* Worker threads (Runs) execute stamp_batch_with_progress concurrently;   *)
(* they share the process-wide CANCELLATION_REGISTRY and the file system.  *)
(* A step of a worker is one access to shared state (registry lock, a      *)
(* path probe, a file write) together with the thread-local code around it.*)
(***************************************************************************)
EXTENDS Integers, Sequences, FiniteSets, TLC

\* ---------------------------------------------------------------- bounds
\* Total number of input paths over all batch invocations of a behaviour.
MaxFiles == 2
\* Number of batch commands invoked in a behaviour.
MaxBatches == 2
\* Number of cancel_stamp_batch commands issued in a behaviour.
MaxCancels == 1
\* Largest width and height of a canvas (image or PDF page) in a placement.
MaxSide == 4
\* Largest width and height of a logo in a placement.
MaxLogo == 3
\* Largest number of dictionaries on the Parent chain of a page.
MaxChain == 34

\* ---------------------------------------------------------------- values
None == <<>>
Some(x) == <<x>>
Ok(x) == [ok |-> TRUE, val |-> x]
Err(e) == [ok |-> FALSE, val |-> e]

Workers == <<"w1", "w2">>
Runs == {Workers[k] : k \in 1..Len(Workers)}
RequestIds == {"r1", "r2"}
NoId == "-"

\* path_policy::OUTPUT_DIR_NAME
OUTPUT_DIR_NAME == "CornerBrand_Output"

\* Input paths, already split the way Path::parent / file_stem / extension
\* split them.  ext is None for a file name without extension.
PathSet ==
    { [dir |-> "A", stem |-> "a", ext |-> Some("png")],
      [dir |-> "B", stem |-> "a", ext |-> Some("PNG")],
      [dir |-> "B", stem |-> "a", ext |-> Some("pdf")],
      [dir |-> "A", stem |-> "n", ext |-> Some("txt")] }

\* Inputs of every kind: the four image extensions and pdf in several
\* spellings, other extensions, an empty extension ("k.") and none ("k").
KindPaths ==
    { [dir |-> "A", stem |-> "k", ext |-> e] :
        e \in { Some("jpg"), Some("Jpeg"), Some("WebP"), Some("PNG"),
                Some("PdF"), Some("TXT"), Some("gif"), Some(""), None } }

\* An image, a PDF and a file of no supported kind.
MediaPaths ==
    { [dir |-> "A", stem |-> "a", ext |-> Some("png")],
      [dir |-> "B", stem |-> "a", ext |-> Some("pdf")],
      [dir |-> "A", stem |-> "n", ext |-> Some("txt")] }

\* The inputs of overlapping commands: the same image, so that their outputs
\* go to the same directory under the same base name.
RacePaths == { [dir |-> "A", stem |-> "a", ext |-> Some("png")] }

\* An output directory that already holds files when the program starts,
\* and the names it may hold.
ProbeDir == "B/CornerBrand_Output"
ProbeNames ==
    { "a_cornerbrand.png", "a_cornerbrand(1).png", "a_cornerbrand(2).png",
      "a_cornerbrand.pdf", "a_cornerbrand(1).pdf" }

\* Directories in lexicographic order (the iteration order of the BTreeMap
\* keyed by parent directory in write_reports).
DirOrder == <<"A", "B">>
\* A path that exists as a regular file, so it cannot be used as a directory.
NotDirs == {"F"}
\* Values of the output-base override: none, an input's parent, a regular file.
Overrides == {None, Some("B"), Some("F")}

\* Error strings of the program (the source texts are Korean; each is named
\* here by an ASCII tag, one tag per distinct source string).
\* batch.rs:137 "취소됨"
ErrCancelled == "cancelled"
\* batch.rs:128
ErrUnsupported == "unsupported file type (jpg/jpeg/png/webp/pdf)"
\* lib.rs:127
ErrLogoPath == "logo file path not found"
\* lib.rs:173
ErrWorker == "batch worker aborted"
\* image_engine.rs:185 / pdf_engine.rs:141
ErrSave == "could not save result"
\* path_policy.rs:158
ErrNotDir == "output folder path is not a directory"
\* path_policy.rs:144
ErrMkdir == "could not create output folder"

VARIABLES
    registry,    \* CANCELLATION_REGISTRY: request id -> cancelled flag
    fs,          \* files on disk: path -> content
    dirs,        \* directories created so far
    clobbered,   \* paths of files that existed when a write replaced them
    nWrites,     \* number of successful file writes so far
    nCancels,    \* number of cancel_stamp_batch commands so far
    lastCancel,  \* the last cancel command: its request id and return value
    pc,          \* per worker: position in the run
    rid,         \* per worker: request id (NoId for stamp_batch)
    paths,       \* per worker: the input list
    override,    \* per worker: output_base_dir
    settings,    \* per worker: the StampSettingsInput of the batch
    sizeBy,      \* per worker: size_percent_by_path (None, or path -> f32)
    index,       \* per worker: loop index (0-based), files consumed so far
    results,     \* per worker: the results vector
    events,      \* per worker: progress events emitted, in order
    midCancel,   \* per worker: for each processed file, was the flag set
                 \*   when the file finished
    outPath,     \* per worker: allocated output path awaiting its write
    calls,       \* per worker: for each attempted file, the stamper it was
                 \*   handed to, whether the logo file was read for it, the
                 \*   number of pages of the PDF that was loaded, the
                 \*   number of logo insertions made in memory, the
                 \*   settings_for_input of the file and what the read of
                 \*   the logo file found
    staged,      \* per worker: the stamped content awaiting its write
    rq,          \* per worker: report groups still to be written
    rpath,       \* per worker: allocated report path awaiting its write
    reports,     \* per worker: report paths written by this run
    rfailed,     \* per worker: number of report groups given up
    rcalls,      \* per worker: number of calls of write_reports in the run
    how,         \* per worker: how the run left its loop
    used,        \* number of input paths handed to batch commands so far
    batches,     \* number of batch commands invoked so far
    arg,         \* the arguments of the last call of a pure function
    ret          \* what that call returned

shared == <<registry, fs, dirs, clobbered, nWrites>>
cancelv == <<nCancels, lastCancel>>
inputs == <<rid, paths, override, settings, sizeBy>>
loopv == <<index, results, events, midCancel, outPath, calls, staged>>
reportv == <<rq, rpath, reports, rfailed, rcalls>>
budget == <<used, batches>>
calc == <<arg, ret>>
vars == <<shared, cancelv, pc, inputs, loopv, reportv, how, budget, calc>>

\* ------------------------------------------------------------ path_policy
\* Path::join of a directory and a sub-directory name.
Join(d, n) == d \o "/" \o n
\* A file path, kept as its parent directory and its file name.
FilePath(d, n) == [dir |-> d, name |-> n]

\* str::to_ascii_lowercase on the extensions that occur in PathSet and
\* KindPaths.
to_ascii_lowercase(e) ==
    CASE e = "PNG" -> "png"
      [] e = "PDF" -> "pdf"
      [] e = "PdF" -> "pdf"
      [] e = "JPG" -> "jpg"
      [] e = "Jpeg" -> "jpeg"
      [] e = "WebP" -> "webp"
      [] e = "TXT" -> "txt"
      [] OTHER -> e

\* The extension is compared as it is spelled.
detect_supported_image_case_sensitive(p) ==
    IF p.ext = None THEN None
    ELSE IF p.ext[1] \in {"jpg", "jpeg", "png", "webp"}
         THEN Some(p.ext[1]) ELSE None

\* path_policy::detect_supported_image: the lower-cased extension when it
\* names a supported image format, None otherwise.
detect_supported_image(p) ==
    IF p.ext = None THEN None
    ELSE LET extension == to_ascii_lowercase(p.ext[1])
         IN  IF extension \in {"jpg", "jpeg", "png", "webp"}
             THEN Some(extension) ELSE None

\* path_policy::is_supported_pdf (eq_ignore_ascii_case "pdf")
is_supported_pdf(p) ==
    IF p.ext = None THEN FALSE ELSE to_ascii_lowercase(p.ext[1]) = "pdf"

\* path_policy::ensure_directory; d is the set of existing directories.
\* Returns the result and the directories existing afterwards.
ensure_directory(d, path) ==
    IF path \in NotDirs THEN [res |-> Err(ErrNotDir), dirs |-> d]
    ELSE [res |-> Ok(path), dirs |-> d \cup {path}]

\* path_policy::resolve_output_dir
resolve_output_dir(d, input_dir, output_base_dir) ==
    LET e == IF output_base_dir # None
             THEN ensure_directory(d, output_base_dir[1])
             ELSE [res |-> Ok(input_dir), dirs |-> d]
    IN  IF ~e.res.ok THEN e
        ELSE LET base_dir == e.res.val
                 output_dir == Join(base_dir, OUTPUT_DIR_NAME)
             IN  IF base_dir \in NotDirs
                 THEN [res |-> Err(ErrMkdir), dirs |-> e.dirs]
                 ELSE [res |-> Ok(output_dir),
                       dirs |-> e.dirs \cup {output_dir}]

\* The probing loop shared by the three build_*_path functions: candidates
\* "<base>(index).<ext>" from index upward until one does not exist.
\* (index is a u32 with saturating_add; a directory holding 2^32 candidate
\* names is outside the bounds of this model.)
RECURSIVE probe_loop(_, _, _, _, _)
probe_loop(files, output_dir, base_name, ext, idx) ==
    LET candidate ==
            FilePath(output_dir,
                     base_name \o "(" \o ToString(idx) \o ")." \o ext)
    IN  IF candidate \notin files THEN candidate
        ELSE probe_loop(files, output_dir, base_name, ext, idx + 1)

\* The numbering starts one too high.
probe_counts_from_two(files, output_dir, base_name, ext) ==
    LET first == FilePath(output_dir, base_name \o "." \o ext)
    IN  IF first \notin files THEN first
        ELSE probe_loop(files, output_dir, base_name, ext, 2)

\* No probing: the plain name is used whether or not it exists.
probe_first_only(files, output_dir, base_name, ext) ==
    FilePath(output_dir, base_name \o "." \o ext)

\* The plain name first, then the numbered candidates from (1).
probe(files, output_dir, base_name, ext) ==
    LET first == FilePath(output_dir, base_name \o "." \o ext)
    IN  IF first \notin files THEN first
        ELSE probe_loop(files, output_dir, base_name, ext, 1)

\* path_policy::build_output_path
build_output_path(files, d, p, output_base_dir) ==
    LET format == detect_supported_image(p) IN
    IF format = None THEN [res |-> Err(ErrUnsupported), dirs |-> d]
    ELSE LET o == resolve_output_dir(d, p.dir, output_base_dir)
             stem == IF p.stem = "" THEN "image" ELSE p.stem
         IN  IF ~o.res.ok THEN o
             ELSE [res |-> Ok(probe(files, o.res.val,
                                    stem \o "_cornerbrand", format[1])),
                   dirs |-> o.dirs]

\* path_policy::build_output_pdf_path
build_output_pdf_path(files, d, p, output_base_dir) ==
    IF ~is_supported_pdf(p) THEN [res |-> Err(ErrUnsupported), dirs |-> d]
    ELSE LET o == resolve_output_dir(d, p.dir, output_base_dir)
             stem == IF p.stem = "" THEN "file" ELSE p.stem
         IN  IF ~o.res.ok THEN o
             ELSE [res |-> Ok(probe(files, o.res.val,
                                    stem \o "_cornerbrand", "pdf")),
                   dirs |-> o.dirs]

\* path_policy::build_report_path
build_report_path(files, d, input_dir, output_base_dir) ==
    LET o == resolve_output_dir(d, input_dir, output_base_dir)
    IN  IF ~o.res.ok THEN o
        ELSE [res |-> Ok(probe(files, o.res.val, "cornerbrand_report", "json")),
              dirs |-> o.dirs]

\* ------------------------------------------------------------ results
\* Copy-paste slip: the cancelled result carries the unsupported-type text.
cancelled_result_wrong_marker(input_path) ==
    [input_path |-> input_path, ok |-> FALSE, output_path |-> None,
     error |-> Some(ErrUnsupported)]

\* batch::cancelled_result
cancelled_result(input_path) ==
    [input_path |-> input_path, ok |-> FALSE, output_path |-> None,
     error |-> Some(ErrCancelled)]

\* batch::unsupported_type_result
unsupported_type_result(input_path) ==
    [input_path |-> input_path, ok |-> FALSE, output_path |-> None,
     error |-> Some(ErrUnsupported)]

\* image_engine::failure_result / pdf_engine::failure_result
failure_result(input_path, error) ==
    [input_path |-> input_path, ok |-> FALSE, output_path |-> None,
     error |-> Some(error)]

\* The success keeps an error text.
success_result_with_error(input_path, output_path) ==
    [input_path |-> input_path, ok |-> TRUE, output_path |-> Some(output_path),
     error |-> Some("")]

\* The Ok arm of stamp_images / stamp_pdfs
success_result(input_path, output_path) ==
    [input_path |-> input_path, ok |-> TRUE, output_path |-> Some(output_path),
     error |-> None]

\* The list a host command returns when it cannot run the batch at all.
host_failure(ps, message) ==
    [i \in 1..Len(ps) |-> failure_result(ps[i], message)]

\* Argument slip: total and done exchanged.
ProgressUpdate_swapped(total, done, input_path, ok) ==
    [total |-> done, done |-> total, input_path |-> input_path, ok |-> ok]

\* batch::ProgressUpdate
ProgressUpdate(total, done, input_path, ok) ==
    [total |-> total, done |-> done, input_path |-> input_path, ok |-> ok]

\* ------------------------------------------------------------ registry
\* batch::is_request_cancelled
is_request_cancelled(reg, request_id) ==
    IF request_id \in DOMAIN reg THEN reg[request_id] ELSE FALSE

\* BTreeMap::insert(request_id, false) in begin_cancellation_request
registry_insert(reg, request_id) ==
    [k \in DOMAIN reg \cup {request_id} |->
        IF k = request_id THEN FALSE ELSE reg[k]]

\* The entry is reset instead of removed.
clear_resets_flag(reg, request_id) ==
    [k \in DOMAIN reg |-> IF k = request_id THEN FALSE ELSE reg[k]]

\* batch::clear_cancellation_request (BTreeMap::remove)
clear_cancellation_request(reg, request_id) ==
    [k \in DOMAIN reg \ {request_id} |-> reg[k]]


\* ------------------------------------------------------------ reports
\* The override is ignored: always one group per parent directory.
report_groups_by_parent(res, output_base_dir) ==
    LET parents == SelectSeq(DirOrder,
            LAMBDA d : \E i \in 1..Len(res) : res[i].input_path.dir = d)
    IN  [k \in 1..Len(parents) |->
           [dir |-> parents[k], base |-> None,
            results |-> SelectSeq(res,
                LAMBDA x : x.input_path.dir = parents[k])]]

\* Without an override everything goes into one group, that of the first
\* result's parent directory.
report_groups_first_parent(res, output_base_dir) ==
    IF output_base_dir # None
    THEN << [dir |-> output_base_dir[1], base |-> output_base_dir,
             results |-> res] >>
    ELSE IF res = <<>> THEN <<>>
    ELSE << [dir |-> res[1].input_path.dir, base |-> None, results |-> res] >>

\* The groups write_reports works through, in order.  With an override there
\* is one group holding every result; without, one group per distinct parent
\* directory of the inputs, in the BTreeMap's key order, each holding that
\* parent's results in batch order.
report_groups(res, output_base_dir) ==
    IF output_base_dir # None
    THEN << [dir |-> output_base_dir[1], base |-> output_base_dir,
             results |-> res] >>
    ELSE LET parents == SelectSeq(DirOrder,
                 LAMBDA d : \E i \in 1..Len(res) : res[i].input_path.dir = d)
         IN  [k \in 1..Len(parents) |->
                [dir |-> parents[k], base |-> None,
                 results |-> SelectSeq(res,
                     LAMBDA x : x.input_path.dir = parents[k])]]

\* std::fs::write / save_with_format / Document::save on an allocated path:
\* creates the file or replaces the one that is there.
file_write(files, path, content) ==
    [q \in DOMAIN files \cup {path} |->
        IF q = path THEN content ELSE files[q]]

\* ------------------------------------------------------------ numbers
\* An f32/f64 value: a finite number (here always an integer), NaN, or an
\* infinity (v is its sign).
Fin(n) == [k |-> "fin", v |-> n]
NaN == [k |-> "nan", v |-> 0]
PosInf == [k |-> "inf", v |-> 1]
NegInf == [k |-> "inf", v |-> -1]

\* f32::is_finite
is_finite(x) == x.k = "fin"

\* f32::clamp(lo, hi): NaN is returned as it is, everything else is brought
\* into [lo, hi].
clamp(x, lo, hi) ==
    CASE x.k = "nan" -> x
      [] x.k = "inf" -> IF x.v > 0 THEN Fin(hi) ELSE Fin(lo)
      [] OTHER -> Fin(IF x.v < lo THEN lo ELSE IF x.v > hi THEN hi ELSE x.v)

Min(a, b) == IF a < b THEN a ELSE b
Max(a, b) == IF a > b THEN a ELSE b

\* f32::round of the non-negative quotient a / b (half away from zero),
\* followed by the cast to u32.
Round(a, b) == (2 * a + b) \div (2 * b)

\* u32::saturating_sub
saturating_sub(a, b) == IF a > b THEN a - b ELSE 0

\* ------------------------------------------------------------ settings
\* The position and preset labels of the source are Korean words; each is
\* named here by an ASCII tag.
\* image_engine.rs:51-54 / pdf_engine.rs:28-31
Positions == {"top-left", "top-right", "bottom-left", "bottom-right"}
\* image_engine.rs:63-65 / pdf_engine.rs:40-42
Presets == {"small", "medium", "large"}

\* image_engine.rs:55 / pdf_engine.rs:32
ErrPosition == "invalid position value"
\* image_engine.rs:66 / pdf_engine.rs:43
ErrPreset == "invalid size preset"
\* image_engine.rs:107 / pdf_engine.rs:148
ErrLogoRead == "could not read logo resource"
\* pdf_engine.rs:150
ErrLogoDecode == "logo image decoding failed"
\* image_engine.rs:142
ErrImageRead == "could not read image file"
\* image_engine.rs:147
ErrImageSize == "invalid image size"
\* pdf_engine.rs:116
ErrPdfLoad == "could not read PDF"
\* pdf_engine.rs:119
ErrNoPages == "PDF without pages"
\* pdf_engine.rs:184
ErrPageSize == "invalid page size"
\* pdf_engine.rs:191
ErrLogoSize == "invalid logo size"
\* The errors that carry the number of the failing page.
\* pdf_engine.rs:230
ErrPageObject(n) == "page " \o ToString(n) \o ": could not read object"
\* pdf_engine.rs:234
ErrPageMediaBox(n) == "page " \o ToString(n) \o ": could not parse MediaBox"
\* pdf_engine.rs:245
ErrPageNoMediaBox(n) == "page " \o ToString(n) \o ": MediaBox not found"
\* pdf_engine.rs:136
ErrPageInsert(n) == "page " \o ToString(n) \o ": logo insertion failed"

\* image_engine::StampSettingsInput
StampSettingsInput(position, size_preset, size_percent, margin_percent) ==
    [position |-> position, size_preset |-> size_preset,
     size_percent |-> size_percent, margin_percent |-> margin_percent]

\* The settings of the repository's own end-to-end tests (batch.rs:341-346).
DefaultSettings == StampSettingsInput("bottom-right", "medium", None, Fin(2))

\* The match on the preset label (image_engine.rs:62-67, 70-75;
\* pdf_engine.rs:39-44, 47-52).  Ratios are kept in hundredths.
size_preset_ratio(size_preset) ==
    CASE size_preset = "small" -> Ok(8)
      [] size_preset = "medium" -> Ok(12)
      [] size_preset = "large" -> Ok(16)
      [] OTHER -> Err(ErrPreset)

\* default_size_preset (image_engine.rs:18-20).
default_size_preset == "medium"

\* serde's Deserialize of StampSettingsInput (image_engine.rs:7-16): a
\* payload that leaves sizePreset out gets the default label, one that
\* leaves sizePercent out gets None.
deserialize(payload) ==
    StampSettingsInput(payload.position,
                       IF payload.size_preset = None
                       THEN default_size_preset ELSE payload.size_preset[1],
                       payload.size_percent, payload.margin_percent)

\* The preset label is matched before the explicit percentage is looked at.
resolve_settings_preset_first(value, hi) ==
    IF value.position \notin Positions THEN Err(ErrPosition)
    ELSE LET preset == size_preset_ratio(value.size_preset)
             size_ratio ==
                 IF ~preset.ok THEN preset
                 ELSE IF value.size_percent # None
                         /\ is_finite(value.size_percent[1])
                 THEN Ok(clamp(value.size_percent[1], 1, hi).v)
                 ELSE preset
         IN  IF ~size_ratio.ok THEN size_ratio
             ELSE Ok([position |-> value.position,
                      size_ratio |-> size_ratio.val,
                      margin_percent |-> clamp(value.margin_percent, 0, 20)])

\* The body shared by the two TryFrom<StampSettingsInput> implementations;
\* hi is the upper end of the clamp of the explicit percentage.  size_ratio
\* is kept in hundredths (clamp(p, 1, hi) / 100.0).
resolve_settings(value, hi) ==
    IF value.position \notin Positions THEN Err(ErrPosition)
    ELSE LET size_ratio ==
                 IF value.size_percent # None
                    /\ is_finite(value.size_percent[1])
                 THEN Ok(clamp(value.size_percent[1], 1, hi).v)
                 ELSE size_preset_ratio(value.size_preset)
         IN  IF ~size_ratio.ok THEN size_ratio
             ELSE Ok([position |-> value.position,
                      size_ratio |-> size_ratio.val,
                      margin_percent |-> clamp(value.margin_percent, 0, 20)])

\* image_engine: StampSettings::try_from
image_try_from(value) == resolve_settings(value, 300)

\* pdf_engine: StampSettings::try_from
pdf_try_from(value) == resolve_settings(value, 50)

\* ------------------------------------------------------------ files
\* What a read of an input image, of the logo file or of an input PDF can
\* find.  A raster is known by its dimensions.
Raster(w, h) == [kind |-> "image", width |-> w, height |-> h]
\* A file that cannot be opened or decoded.
Garbage == [kind |-> "garbage", width |-> 0, height |-> 0]

\* lopdf objects, as far as resolve_page_size and parse_media_box look at
\* them.  A number of a MediaBox array (Object::Integer / Object::Real):
Num(n) == [num |-> TRUE, v |-> n]
\* any other object in its place:
NotNum == [num |-> FALSE, v |-> 0]
\* The value found under the key MediaBox:
BoxArray(items) == [kind |-> "array", items |-> items, id |-> 0]
BoxRef(id) == [kind |-> "ref", items |-> <<>>, id |-> id]
BoxOther == [kind |-> "other", items |-> <<>>, id |-> 0]
\* A dictionary (or the dictionary of a stream): its MediaBox entry, if any,
\* and its Parent entry: absent or not a reference (None), or a reference.
Dict(media_box, parent) ==
    [kind |-> "dict", media_box |-> media_box, parent |-> parent,
     items |-> <<>>]
\* An array object (the target of an indirect MediaBox).
ArrayObj(items) ==
    [kind |-> "array", media_box |-> None, parent |-> None, items |-> items]
\* An object that is neither dictionary, stream nor array.
OtherObj ==
    [kind |-> "other", media_box |-> None, parent |-> None, items |-> <<>>]

\* A loaded lopdf Document: objects by id, the page ids in page order
\* (Document::get_pages numbers them from 1), and the pages on which
\* Document::insert_image fails.
Document(objects, pages, uninsertable) ==
    [kind |-> "pdf", objects |-> objects, pages |-> pages,
     uninsertable |-> uninsertable]
\* A file Document::load rejects.
BadPdf == [kind |-> "garbage", objects |-> <<>>, pages |-> <<>>,
           uninsertable |-> {}]

\* ------------------------------------------------------------ image_engine
\* image_engine.rs:150-177: the placement of the logo on a width x height
\* image, in pixels (u32): the resized logo's size and its top-left corner.
image_place(width, height, logo, s) ==
    LET short_side == Min(width, height)
        \* a NaN cast to u32 is 0
        margin_px == IF s.margin_percent.k = "nan" THEN 0
                     ELSE Round(short_side * s.margin_percent.v, 100)
        logo_max == Max(Max(logo.width, logo.height), 1)
        target_max == Max(Round(short_side * s.size_ratio, 100), 1)
        target_width == Max(Round(logo.width * target_max, logo_max), 1)
        target_height == Max(Round(logo.height * target_max, logo_max), 1)
        max_x == saturating_sub(width, target_width)
        max_y == saturating_sub(height, target_height)
        low_x == Min(margin_px, max_x)
        low_y == Min(margin_px, max_y)
        high_x == saturating_sub(max_x, margin_px)
        high_y == saturating_sub(max_y, margin_px)
    IN  [x |-> IF s.position \in {"top-left", "bottom-left"}
               THEN low_x ELSE high_x,
         y |-> IF s.position \in {"top-left", "top-right"}
               THEN low_y ELSE high_y,
         w |-> target_width, h |-> target_height, den |-> 1]

\* stamp_single_image up to the overlay (image_engine.rs:138-180): the
\* error, or the rectangle the logo was drawn at; inserted counts the
\* overlays made on the decoded image.
compose_image(source, logo, s) ==
    IF source.kind # "image"
    THEN [res |-> Err(ErrImageRead), inserted |-> 0]
    ELSE IF source.width = 0 \/ source.height = 0
    THEN [res |-> Err(ErrImageSize), inserted |-> 0]
    ELSE [res |-> Ok(<<[page |-> 0,
                        rect |-> image_place(source.width, source.height,
                                             logo, s)]>>),
          inserted |-> 1]

\* stamp_images for one path, up to the overlay (image_engine.rs:94-119):
\* the settings are resolved, then the logo file is opened, then the file
\* is composed.  logo_read tells whether the logo file was opened.
image_attempt(settings_input, logo, source) ==
    LET s == image_try_from(settings_input) IN
    IF ~s.ok THEN [logo_read |-> FALSE, res |-> s, inserted |-> 0,
                   pages |-> 0]
    ELSE IF logo.kind # "image"
    THEN [logo_read |-> TRUE, res |-> Err(ErrLogoRead), inserted |-> 0,
          pages |-> 0]
    ELSE LET c == compose_image(source, logo, s.val)
         IN  [logo_read |-> TRUE, res |-> c.res, inserted |-> c.inserted,
              pages |-> 0]

\* ------------------------------------------------------------ pdf_engine
\* The traversal bound of resolve_page_size (pdf_engine.rs:228).
MaxHops == 32

\* pdf_engine::parse_media_box: the array itself or the array an indirect
\* reference leads to; four numbers; width and height positive.
parse_media_box(doc, obj) ==
    LET arr == CASE obj.kind = "array" -> Ok(obj.items)
                 [] obj.kind = "ref" ->
                        IF obj.id \in DOMAIN doc.objects
                           /\ doc.objects[obj.id].kind = "array"
                        THEN Ok(doc.objects[obj.id].items)
                        ELSE Err("no array")
                 [] OTHER -> Err("no array")
    IN  IF ~arr.ok THEN arr
        ELSE IF Len(arr.val) # 4 THEN Err("length")
        ELSE IF \E i \in 1..4 : ~arr.val[i].num THEN Err("not a number")
        ELSE LET width == arr.val[3].v - arr.val[1].v
                 height == arr.val[4].v - arr.val[2].v
             IN  IF width <= 0 \/ height <= 0 THEN Err("not positive")
                 ELSE Ok([width |-> width, height |-> height])

\* The bound is forgotten: the walk goes on as long as there is a parent.
RECURSIVE walk_unbounded(_, _, _, _, _)
walk_unbounded(doc, current_id, page_number, hops, seen) ==
    IF hops = 2 * MaxHops
    THEN [res |-> Err(ErrPageNoMediaBox(page_number)), inspected |-> seen]
    ELSE IF current_id \notin DOMAIN doc.objects
            \/ doc.objects[current_id].kind # "dict"
    THEN [res |-> Err(ErrPageObject(page_number)), inspected |-> seen]
    ELSE LET dict == doc.objects[current_id] IN
         IF dict.media_box # None
         THEN [res |-> LET size == parse_media_box(doc, dict.media_box[1])
                       IN  IF size.ok THEN size
                           ELSE Err(ErrPageMediaBox(page_number)),
               inspected |-> seen + 1]
         ELSE IF dict.parent = None
         THEN [res |-> Err(ErrPageNoMediaBox(page_number)),
               inspected |-> seen + 1]
         ELSE walk_unbounded(doc, dict.parent[1], page_number, hops + 1,
                             seen + 1)

\* The loop of resolve_page_size (pdf_engine.rs:228-246): hops iterations
\* are done and seen dictionaries have been looked at.
RECURSIVE walk(_, _, _, _, _)
walk(doc, current_id, page_number, hops, seen) ==
    IF hops = MaxHops
    THEN [res |-> Err(ErrPageNoMediaBox(page_number)), inspected |-> seen]
    ELSE IF current_id \notin DOMAIN doc.objects
            \/ doc.objects[current_id].kind # "dict"
    THEN [res |-> Err(ErrPageObject(page_number)), inspected |-> seen]
    ELSE LET dict == doc.objects[current_id] IN
         IF dict.media_box # None
         THEN [res |-> LET size == parse_media_box(doc, dict.media_box[1])
                       IN  IF size.ok THEN size
                           ELSE Err(ErrPageMediaBox(page_number)),
               inspected |-> seen + 1]
         ELSE IF dict.parent = None
         THEN [res |-> Err(ErrPageNoMediaBox(page_number)),
               inspected |-> seen + 1]
         ELSE walk(doc, dict.parent[1], page_number, hops + 1, seen + 1)

\* pdf_engine::resolve_page_size
resolve_page_size(doc, page_id, page_number) ==
    walk(doc, page_id, page_number, 0, 0)

\* pdf_engine::compute_logo_rect.  The f64 quantities are exact fractions
\* here: every length is a number of units of 1 / den of a PDF unit, with
\* den = 100 * logo_max, which makes each product and quotient of the
\* function a whole number of units.
compute_logo_rect(page_width, page_height, s, logo) ==
    IF page_width <= 0 \/ page_height <= 0 THEN Err(ErrPageSize)
    ELSE IF logo.width = 0 \/ logo.height = 0 THEN Err(ErrLogoSize)
    ELSE
    LET logo_max == Max(logo.width, logo.height)
        den == 100 * logo_max
        short_side == Min(page_width, page_height)
        nan == s.margin_percent.k = "nan"
        margin == IF nan THEN 0 ELSE short_side * s.margin_percent.v * logo_max
        \* (short_side * size_ratio).max(1.0) / logo_max, times 100
        scale == Max(short_side * s.size_ratio, 100)
        draw_width == Max(logo.width * scale, den)
        draw_height == Max(logo.height * scale, den)
        max_x == Max(page_width * den - draw_width, 0)
        max_y == Max(page_height * den - draw_height, 0)
        \* f64::min and f64::max return the other operand for a NaN one
        left_x == IF nan THEN max_x ELSE Min(margin, max_x)
        right_x == IF nan THEN Min(0, max_x)
                   ELSE Min(Max(page_width * den - draw_width - margin, 0),
                            max_x)
        bottom_y == IF nan THEN max_y ELSE Min(margin, max_y)
        top_y == IF nan THEN Min(0, max_y)
                 ELSE Min(Max(page_height * den - draw_height - margin, 0),
                          max_y)
    IN  Ok([x |-> IF s.position \in {"top-left", "bottom-left"}
                  THEN left_x ELSE right_x,
            y |-> IF s.position \in {"top-left", "top-right"}
                  THEN top_y ELSE bottom_y,
            w |-> draw_width, h |-> draw_height, den |-> den])

\* Every page is placed by the size of the first page.
RECURSIVE stamp_pages_first_size(_, _, _, _, _)
stamp_pages_first_size(doc, s, logo, n, marks) ==
    IF n > Len(doc.pages) THEN [res |-> Ok(marks), inserted |-> Len(marks)]
    ELSE LET size == resolve_page_size(doc, doc.pages[1], n).res IN
         IF ~size.ok THEN [res |-> size, inserted |-> Len(marks)]
         ELSE LET rect == compute_logo_rect(size.val.width, size.val.height,
                                            s, logo)
              IN  IF ~rect.ok THEN [res |-> rect, inserted |-> Len(marks)]
                  ELSE IF n \in doc.uninsertable
                  THEN [res |-> Err(ErrPageInsert(n)),
                        inserted |-> Len(marks)]
                  ELSE stamp_pages_first_size(doc, s, logo, n + 1,
                           Append(marks, [page |-> doc.pages[n],
                                          rect |-> rect.val]))

\* The page loop of stamp_single_pdf (pdf_engine.rs:122-137) from page
\* number n on; marks are the insertions made so far in the loaded
\* document, one per page: the page's object id and the rectangle.  The
\* result is the error of the first failing page or all the marks, with
\* the number of insertions made.
RECURSIVE stamp_pages(_, _, _, _, _)
stamp_pages(doc, s, logo, n, marks) ==
    IF n > Len(doc.pages) THEN [res |-> Ok(marks), inserted |-> Len(marks)]
    ELSE LET size == resolve_page_size(doc, doc.pages[n], n).res IN
         IF ~size.ok THEN [res |-> size, inserted |-> Len(marks)]
         ELSE LET rect == compute_logo_rect(size.val.width, size.val.height,
                                            s, logo)
              IN  IF ~rect.ok THEN [res |-> rect, inserted |-> Len(marks)]
                  ELSE IF n \in doc.uninsertable
                  THEN [res |-> Err(ErrPageInsert(n)),
                        inserted |-> Len(marks)]
                  ELSE stamp_pages(doc, s, logo, n + 1,
                           Append(marks, [page |-> doc.pages[n],
                                          rect |-> rect.val]))

\* stamp_single_pdf up to the request for an output path
\* (pdf_engine.rs:112-137).
compose_pdf(doc, logo, s) ==
    IF doc.kind # "pdf"
    THEN [res |-> Err(ErrPdfLoad), inserted |-> 0, pages |-> 0]
    ELSE IF doc.pages = <<>>
    THEN [res |-> Err(ErrNoPages), inserted |-> 0, pages |-> 0]
    ELSE LET done == stamp_pages(doc, s, logo, 1, <<>>)
         IN  [res |-> done.res, inserted |-> done.inserted,
              pages |-> Len(doc.pages)]

\* stamp_pdfs for one path, up to the request for an output path
\* (pdf_engine.rs:69-93): settings, then build_logo_stream, then the file.
pdf_attempt(settings_input, logo, doc) ==
    LET s == pdf_try_from(settings_input) IN
    IF ~s.ok
    THEN [logo_read |-> FALSE, res |-> s, inserted |-> 0, pages |-> 0]
    ELSE IF logo.kind = "missing"
    THEN [logo_read |-> TRUE, res |-> Err(ErrLogoRead), inserted |-> 0,
          pages |-> 0]
    ELSE IF logo.kind # "image"
    THEN [logo_read |-> TRUE, res |-> Err(ErrLogoDecode), inserted |-> 0,
          pages |-> 0]
    ELSE LET c == compose_pdf(doc, logo, s.val)
         IN  [logo_read |-> TRUE, res |-> c.res, inserted |-> c.inserted,
              pages |-> c.pages]

\* ------------------------------------------------------------ disk
\* The page tree of the repository's PDF fixture (pdf_engine.rs:331-381):
\* a Pages node and two pages that carry their own MediaBox.
Box(w, h) == BoxArray(<<Num(0), Num(0), Num(w), Num(h)>>)
TwoPagePdf(w1, h1, w2, h2) ==
    Document(<<Dict(None, None),
               Dict(Some(Box(w1, h1)), Some(1)),
               Dict(Some(Box(w2, h2)), Some(1))>>,
             <<2, 3>>, {})
\* One page that inherits its MediaBox from the Pages node.
OnePagePdf(w, h) ==
    Document(<<Dict(Some(Box(w, h)), None), Dict(None, Some(1))>>, <<2>>, {})

\* What the input files and the logo file hold when nothing is special
\* about them: an image decodes or does not, a PDF loads or does not, the
\* logo is a 2 x 1 raster.
PlainImages == {Garbage, Raster(4, 4)}
PlainDocs == {BadPdf, OnePagePdf(4, 4)}
PlainLogos == {Raster(2, 1)}

\* A file that cannot be read at all.
Missing == [kind |-> "missing", width |-> 0, height |-> 0]
\* A document without pages.
EmptyPdf == Document(<<Dict(None, None)>>, <<>>, {})
\* Two pages under a Pages node; no dictionary carries a MediaBox for the
\* second page, whose Parent chain ends at the Pages node.
NoBoxPdf(w, h) ==
    Document(<<Dict(None, None),
               Dict(Some(Box(w, h)), Some(1)),
               Dict(None, Some(1))>>,
             <<2, 3>>, {})
\* Two pages, on the second of which insert_image fails.
UninsertablePdf(w, h) ==
    Document(<<Dict(None, None),
               Dict(Some(Box(w, h)), Some(1)),
               Dict(Some(Box(w, h)), Some(1))>>,
             <<2, 3>>, {2})

\* Everything the reads may find: images that do not decode or have no
\* area, documents that do not load, have no pages, fail on their second
\* page or have pages of different sizes, a logo that is missing or does
\* not decode.
AnyImages == {Garbage, Raster(0, 2), Raster(4, 4)}
AnyDocs == {BadPdf, EmptyPdf, NoBoxPdf(4, 4), UninsertablePdf(4, 4),
            TwoPagePdf(300, 300, 100, 200)}
AnyLogos == {Missing, Garbage, Raster(2, 1)}

\* ------------------------------------------------------------ inputs
RECURSIVE SeqsOfLen(_, _)
SeqsOfLen(S, n) ==
    IF n = 0 THEN {<<>>}
    ELSE {Append(q, x) : q \in SeqsOfLen(S, n - 1), x \in S}

SeqsUpTo(S, n) == UNION {SeqsOfLen(S, k) : k \in 0..n}

\* ------------------------------------------------------------ actions
\* lib.rs stamp_batch_progress / stamp_batch: the host command is invoked
\* on worker r with paths over PS, a request id of IDS and an override of
\* OVS; everything local to the run starts afresh.
\* A failure to resolve the logo answers at once; stamp_batch (no request
\* id) runs the batch on the calling thread; stamp_batch_progress hands the
\* batch to a blocking worker.  SS are the settings payloads and MAPS the
\* size_percent_by_path arguments the command may come with.
InvokeWith(r, PS, IDS, OVS, SS, MAPS) ==
    /\ batches < MaxBatches
    /\ batches' = batches + 1
    /\ \E ps \in SeqsUpTo(PS, MaxFiles - used),
       id \in IDS,
       ob \in OVS,
       st \in SS,
       sb \in MAPS,
       logo_found \in BOOLEAN :
        /\ settings' = [settings EXCEPT ![r] = st]
        /\ sizeBy' = [sizeBy EXCEPT ![r] = sb]
        /\ calls' = [calls EXCEPT ![r] = <<>>]
        /\ staged' = [staged EXCEPT ![r] = None]
        /\ used' = used + Len(ps)
        /\ rid' = [rid EXCEPT ![r] = id]
        /\ paths' = [paths EXCEPT ![r] = ps]
        /\ override' = [override EXCEPT ![r] = ob]
        /\ index' = [index EXCEPT ![r] = 0]
        /\ events' = [events EXCEPT ![r] = <<>>]
        /\ midCancel' = [midCancel EXCEPT ![r] = <<>>]
        /\ outPath' = [outPath EXCEPT ![r] = None]
        /\ rq' = [rq EXCEPT ![r] = <<>>]
        /\ rpath' = [rpath EXCEPT ![r] = None]
        /\ reports' = [reports EXCEPT ![r] = <<>>]
        /\ rfailed' = [rfailed EXCEPT ![r] = 0]
        /\ rcalls' = [rcalls EXCEPT ![r] = 0]
        /\ IF ~logo_found
           THEN /\ results' = [results EXCEPT ![r] = host_failure(ps, ErrLogoPath)]
                /\ how' = [how EXCEPT ![r] = "nologo"]
                /\ pc' = [pc EXCEPT ![r] = "done"]
           ELSE /\ results' = [results EXCEPT ![r] = <<>>]
                /\ how' = [how EXCEPT ![r] = "none"]
                /\ pc' = [pc EXCEPT ![r] = IF id = NoId THEN "check" ELSE "spawned"]
        /\ UNCHANGED <<shared, cancelv, calc>>

\* Overlapping stamp_batch_progress commands, each on a worker of its own,
\* the workers taken in the order of Workers.  Request ids are the caller's
\* choice; the first command's id is called "r1", the second command
\* repeats it or brings another.
Invoke(r) ==
    /\ pc[r] = "idle"
    /\ \A k \in 1..Len(Workers) :
          Workers[k] = r => \A j \in 1..(k - 1) : pc[Workers[j]] # "idle"
    /\ InvokeWith(r, RacePaths,
                  IF r = Workers[1] THEN {"r1"} ELSE RequestIds, {None},
                  {DefaultSettings}, {None})

\* One batch command of any kind with any inputs.
InvokeOnce(r) ==
    /\ r = Workers[1]
    /\ pc[r] = "idle"
    /\ InvokeWith(r, PathSet, {"r1", NoId}, Overrides,
                  {DefaultSettings}, {None})

\* One stamp_batch_progress command over an output directory that is not
\* empty.
InvokeProbe(r) ==
    /\ r = Workers[1]
    /\ pc[r] = "idle"
    /\ InvokeWith(r, PathSet, {"r1"}, Overrides, {DefaultSettings}, {None})

\* stamp_batch_progress commands run one after another on the same worker.
InvokeAlone(r) ==
    /\ r = Workers[1]
    /\ pc[r] \in {"idle", "done"}
    /\ InvokeWith(r, PathSet, {"r1"}, Overrides, {DefaultSettings}, {None})

\* One stamp_batch_progress command over inputs of every kind.
InvokeKinds(r) ==
    /\ r = Workers[1]
    /\ pc[r] = "idle"
    /\ InvokeWith(r, KindPaths, {"r1"}, {None}, {DefaultSettings}, {None})

\* One stamp_batch_progress command whose settings may be invalid and whose
\* override may be unusable.
InvokeMedia(r) ==
    /\ r = Workers[1]
    /\ pc[r] = "idle"
    /\ InvokeWith(r, MediaPaths, {"r1"}, {None, Some("F")},
                  {DefaultSettings,
                   StampSettingsInput("center", "medium", None, Fin(2)),
                   StampSettingsInput("top-left", "huge", None, Fin(2))},
                  {None})

\* batch::begin_cancellation_request, first statement of the worker closure.
begin_cancellation_request(r) ==
    /\ pc[r] = "spawned"
    /\ registry' = registry_insert(registry, rid[r])
    /\ pc' = [pc EXCEPT ![r] = "check"]
    /\ UNCHANGED <<fs, dirs, clobbered, nWrites, cancelv, inputs, loopv, reportv, how, budget, calc>>

\* The flag is set through an inserting write: an unknown id gains an entry.
cancel_inserts_unknown(request_id) ==
    /\ nCancels < MaxCancels
    /\ nCancels' = nCancels + 1
    /\ registry' = [k \in DOMAIN registry \cup {request_id} |->
                        IF k = request_id THEN TRUE ELSE registry[k]]
    /\ lastCancel' = Some([id |-> request_id,
                           ret |-> request_id \in DOMAIN registry])
    /\ UNCHANGED <<fs, dirs, clobbered, nWrites, pc, inputs, loopv, reportv, how, budget, calc>>

\* lib.rs cancel_stamp_batch -> batch::cancel_cancellation_request
cancel_cancellation_request(request_id) ==
    /\ nCancels < MaxCancels
    /\ nCancels' = nCancels + 1
    /\ IF request_id \in DOMAIN registry
       THEN /\ registry' = [registry EXCEPT ![request_id] = TRUE]
            /\ lastCancel' = Some([id |-> request_id, ret |-> TRUE])
       ELSE /\ registry' = registry
            /\ lastCancel' = Some([id |-> request_id, ret |-> FALSE])
    /\ UNCHANGED <<fs, dirs, clobbered, nWrites, pc, inputs, loopv, reportv, how, budget, calc>>

\* Off by one: the slice starts after the current file.
cancelled_tail_from_next(ps, idx) ==
    [k \in 1..(Len(ps) - idx - 1) |-> cancelled_result(ps[idx + 1 + k])]

\* The paths[index..] slice turned into cancelled results (batch.rs:70-72).
cancelled_tail(ps, idx) ==
    [k \in 1..(Len(ps) - idx) |-> cancelled_result(ps[idx + k])]

\* write_reports is called only when the loop ran to its end.
EnterReports_unless_cancelled(r, res, exit) ==
    /\ rq' = [rq EXCEPT ![r] = IF exit = "normal"
                               THEN report_groups(res, override[r])
                               ELSE <<>>]
    /\ rcalls' = [rcalls EXCEPT ![r] = IF exit = "normal" THEN @ + 1 ELSE @]
    /\ how' = [how EXCEPT ![r] = exit]
    /\ pc' = [pc EXCEPT ![r] = "report"]

\* Leaving the loop: write_reports starts on the final results.
EnterReports(r, res, exit) ==
    /\ rq' = [rq EXCEPT ![r] = report_groups(res, override[r])]
    /\ rcalls' = [rcalls EXCEPT ![r] = @ + 1]
    /\ how' = [how EXCEPT ![r] = exit]
    /\ pc' = [pc EXCEPT ![r] = "report"]

\* The flag is looked at before every other file only.
Check_every_other(r) ==
    /\ pc[r] = "check"
    /\ IF index[r] = Len(paths[r])
       THEN /\ EnterReports(r, results[r], "normal")
            /\ UNCHANGED results
       ELSE IF /\ index[r] % 2 = 0
               /\ rid[r] # NoId
               /\ is_request_cancelled(registry, rid[r])
       THEN /\ results' = [results EXCEPT
                             ![r] = @ \o cancelled_tail(paths[r], index[r])]
            /\ EnterReports(r, results'[r], "cancelled")
       ELSE /\ pc' = [pc EXCEPT ![r] = "stamp"]
            /\ UNCHANGED <<results, rq, rcalls, how>>
    /\ UNCHANGED <<shared, cancelv, inputs, index, events, midCancel, outPath,
                   calls, staged, rpath, reports, rfailed, budget, calc>>

\* Top of the for loop (batch.rs:67-75): end of the list, or the
\* cancellation check before the file at index.
Check(r) ==
    /\ pc[r] = "check"
    /\ IF index[r] = Len(paths[r])
       THEN /\ EnterReports(r, results[r], "normal")
            /\ UNCHANGED results
       ELSE IF rid[r] # NoId /\ is_request_cancelled(registry, rid[r])
       THEN /\ results' = [results EXCEPT
                             ![r] = @ \o cancelled_tail(paths[r], index[r])]
            /\ EnterReports(r, results'[r], "cancelled")
       ELSE /\ pc' = [pc EXCEPT ![r] = "stamp"]
            /\ UNCHANGED <<results, rq, rcalls, how>>
    /\ UNCHANGED <<shared, cancelv, inputs, index, events, midCancel, outPath,
                   calls, staged, rpath, reports, rfailed, budget, calc>>

\* The flag is looked at again when the file is done, and a set flag turns
\* the finished file into a cancelled one without a progress event.
Finish_preempted(r, result) ==
    LET hit == is_request_cancelled(registry, rid[r]) IN
    /\ events' = [events EXCEPT ![r] =
            IF hit THEN @
            ELSE Append(@, ProgressUpdate(Len(paths[r]), index[r] + 1,
                                          paths[r][index[r] + 1], result.ok))]
    /\ results' = [results EXCEPT ![r] =
            Append(@, IF hit THEN cancelled_result(paths[r][index[r] + 1])
                      ELSE result)]
    /\ midCancel' = [midCancel EXCEPT ![r] = Append(@, hit)]
    /\ index' = [index EXCEPT ![r] = @ + 1]
    /\ pc' = [pc EXCEPT ![r] = "check"]

\* A failed file ends the loop: the files after it are left out.
Finish_stops_on_failure(r, result) ==
    /\ events' = [events EXCEPT ![r] =
            Append(@, ProgressUpdate(Len(paths[r]), index[r] + 1,
                                     paths[r][index[r] + 1], result.ok))]
    /\ results' = [results EXCEPT ![r] = Append(@, result)]
    /\ midCancel' = [midCancel EXCEPT ![r] =
            Append(@, is_request_cancelled(registry, rid[r]))]
    /\ index' = [index EXCEPT ![r] =
            IF result.ok THEN @ + 1 ELSE Len(paths[r])]
    /\ pc' = [pc EXCEPT ![r] = "check"]

\* batch.rs:109-116: the progress event, then the push of the result.
Finish(r, result) ==
    /\ events' = [events EXCEPT ![r] =
            Append(@, ProgressUpdate(Len(paths[r]), index[r] + 1,
                                     paths[r][index[r] + 1], result.ok))]
    /\ results' = [results EXCEPT ![r] = Append(@, result)]
    /\ midCancel' = [midCancel EXCEPT ![r] =
            Append(@, is_request_cancelled(registry, rid[r]))]
    /\ index' = [index EXCEPT ![r] = @ + 1]
    /\ pc' = [pc EXCEPT ![r] = "check"]

\* An override met earlier in the batch stays in force for the later files.
settings_for_input_leaking(r, input) ==
    IF sizeBy[r] # None
       /\ \E i \in 1..(index[r] + 1) : paths[r][i] \in DOMAIN sizeBy[r][1]
    THEN LET first == CHOOSE i \in 1..(index[r] + 1) :
                         /\ paths[r][i] \in DOMAIN sizeBy[r][1]
                         /\ \A j \in 1..(i - 1) :
                               paths[r][j] \notin DOMAIN sizeBy[r][1]
         IN  [settings[r] EXCEPT
                !.size_percent =
                    Some(clamp(sizeBy[r][1][paths[r][first]], 1, 300))]
    ELSE settings[r]

\* batch.rs:77-82: the settings a file is stamped with.
settings_for_input(r, input) ==
    IF sizeBy[r] # None /\ input \in DOMAIN sizeBy[r][1]
    THEN [settings[r] EXCEPT
            !.size_percent = Some(clamp(sizeBy[r][1][input], 1, 300))]
    ELSE settings[r]

\* The output path is asked for (and the output directory created) before
\* the file is looked at.
StampFile_allocating_first(r, input, settings_input, stamper, logo, attempt, alloc) ==
    /\ calls' = [calls EXCEPT ![r] =
            Append(@, [stamper |-> stamper, logo_read |-> attempt.logo_read,
                       inserted |-> attempt.inserted,
                       pages |-> attempt.pages,
                       settings |-> settings_input,
                       logo |-> IF attempt.logo_read
                                THEN Some(logo) ELSE None])]
    /\ dirs' = alloc.dirs
    /\ IF ~attempt.res.ok
       THEN /\ Finish(r, failure_result(input, attempt.res.val))
            /\ UNCHANGED <<outPath, staged>>
       ELSE IF alloc.res.ok
       THEN /\ outPath' = [outPath EXCEPT ![r] = Some(alloc.res.val)]
            /\ staged' = [staged EXCEPT ![r] = Some(attempt.res.val)]
            /\ pc' = [pc EXCEPT ![r] = "save"]
            /\ UNCHANGED <<index, results, events, midCancel>>
       ELSE /\ Finish(r, failure_result(input, alloc.res.val))
            /\ UNCHANGED <<outPath, staged>>

\* One call of stamp_images / stamp_pdfs with a single path, up to the
\* output path: the file fails before asking for a path, or asks for one
\* (which may create the output directory) and keeps its content for the
\* write.
StampFile(r, input, settings_input, stamper, logo, attempt, alloc) ==
    /\ calls' = [calls EXCEPT ![r] =
            Append(@, [stamper |-> stamper, logo_read |-> attempt.logo_read,
                       inserted |-> attempt.inserted,
                       pages |-> attempt.pages,
                       settings |-> settings_input,
                       logo |-> IF attempt.logo_read
                                THEN Some(logo) ELSE None])]
    /\ IF ~attempt.res.ok
       THEN /\ Finish(r, failure_result(input, attempt.res.val))
            /\ UNCHANGED <<dirs, outPath, staged>>
       ELSE /\ dirs' = alloc.dirs
            /\ IF alloc.res.ok
               THEN /\ outPath' = [outPath EXCEPT ![r] = Some(alloc.res.val)]
                    /\ staged' = [staged EXCEPT ![r] = Some(attempt.res.val)]
                    /\ pc' = [pc EXCEPT ![r] = "save"]
                    /\ UNCHANGED <<index, results, events, midCancel>>
               ELSE /\ Finish(r, failure_result(input, alloc.res.val))
                    /\ UNCHANGED <<outPath, staged>>

\* batch.rs:77-107: classify by extension and dispatch.  IMGS, DOCS and
\* LOGOS are what the reads of an input image, an input PDF and the logo
\* file may find.
StampFrom(r, IMGS, DOCS, LOGOS) ==
    /\ pc[r] = "stamp"
    /\ LET input == paths[r][index[r] + 1]
           settings_input == settings_for_input(r, input)
       IN
       IF detect_supported_image(input) # None
       THEN \E logo \in LOGOS, source \in IMGS :
               StampFile(r, input, settings_input, "image", logo,
                   image_attempt(settings_input, logo, source),
                   build_output_path(DOMAIN fs, dirs, input, override[r]))
       ELSE IF is_supported_pdf(input)
       THEN \E logo \in LOGOS, doc \in DOCS :
               StampFile(r, input, settings_input, "pdf", logo,
                   pdf_attempt(settings_input, logo, doc),
                   build_output_pdf_path(DOMAIN fs, dirs, input, override[r]))
       ELSE /\ calls' = [calls EXCEPT ![r] =
                   Append(@, [stamper |-> "none", logo_read |-> FALSE,
                              inserted |-> 0, pages |-> 0,
                              settings |-> settings_input,
                              logo |-> None])]
            /\ Finish(r, unsupported_type_result(input))
            /\ UNCHANGED <<dirs, outPath, staged>>
    /\ UNCHANGED <<registry, fs, clobbered, nWrites, cancelv, inputs, reportv, how, budget, calc>>

\* The loop body over files that are plain.
Stamp(r) == StampFrom(r, PlainImages, PlainDocs, PlainLogos)

\* The loop body over files of every condition.
StampAny(r) == StampFrom(r, AnyImages, AnyDocs, AnyLogos)

\* image_engine.rs:183-187 / pdf_engine.rs:140-143: the write to the
\* allocated path, which succeeds or fails.
Save(r) ==
    /\ pc[r] = "save"
    /\ LET input == paths[r][index[r] + 1]
           path == outPath[r][1]
       IN  \/ /\ fs' = file_write(fs, path,
                        [kind |-> "stamped", by |-> r, input |-> input,
                         marks |-> staged[r][1]])
              /\ clobbered' = IF path \in DOMAIN fs
                              THEN clobbered \cup {path} ELSE clobbered
              /\ nWrites' = nWrites + 1
              /\ Finish(r, success_result(input, path))
           \/ /\ UNCHANGED <<fs, clobbered, nWrites>>
              /\ Finish(r, failure_result(input, ErrSave))
    /\ outPath' = [outPath EXCEPT ![r] = None]
    /\ staged' = [staged EXCEPT ![r] = None]
    /\ UNCHANGED <<registry, dirs, cancelv, inputs, calls, reportv, how, budget, calc>>

\* write_reports (batch.rs:185-215): the report path of the next group.
ReportAlloc(r) ==
    /\ pc[r] = "report"
    /\ rq[r] # <<>>
    /\ LET g == Head(rq[r])
           a == build_report_path(DOMAIN fs, dirs, g.dir, g.base)
       IN  /\ dirs' = a.dirs
           /\ IF a.res.ok
              THEN /\ rpath' = [rpath EXCEPT ![r] = Some(a.res.val)]
                   /\ pc' = [pc EXCEPT ![r] = "rwrite"]
                   /\ UNCHANGED <<rq, rfailed>>
              ELSE /\ rq' = [rq EXCEPT ![r] =
                                IF g.base # None THEN <<>> ELSE Tail(@)]
                   /\ rfailed' = [rfailed EXCEPT ![r] = @ + 1]
                   /\ UNCHANGED <<rpath, pc>>
    /\ UNCHANGED <<registry, fs, clobbered, nWrites, cancelv, inputs, loopv,
                   reports, rcalls, how, budget, calc>>

\* A failed write is surfaced: the batch's results become failures and the
\* remaining groups are dropped.
write_report_file_surfacing(r) ==
    /\ pc[r] = "rwrite"
    /\ LET g == Head(rq[r])
           path == rpath[r][1]
       IN  \/ /\ fs' = file_write(fs, path,
                        [kind |-> "report", by |-> r,
                         settings |-> settings[r], results |-> g.results])
              /\ clobbered' = IF path \in DOMAIN fs
                              THEN clobbered \cup {path} ELSE clobbered
              /\ nWrites' = nWrites + 1
              /\ reports' = [reports EXCEPT ![r] = Append(@, path)]
              /\ rq' = [rq EXCEPT ![r] = Tail(@)]
              /\ UNCHANGED <<rfailed, results>>
           \/ /\ rfailed' = [rfailed EXCEPT ![r] = @ + 1]
              /\ rq' = [rq EXCEPT ![r] = <<>>]
              /\ results' = [results EXCEPT ![r] = host_failure(paths[r], ErrSave)]
              /\ UNCHANGED <<fs, clobbered, nWrites, reports>>
    /\ rpath' = [rpath EXCEPT ![r] = None]
    /\ pc' = [pc EXCEPT ![r] = "report"]
    /\ UNCHANGED <<registry, dirs, cancelv, inputs, index, events, midCancel,
                   outPath, calls, staged, rcalls, how, budget, calc>>

\* write_report_file (batch.rs:218-235): serialise and write, errors dropped.
write_report_file(r) ==
    /\ pc[r] = "rwrite"
    /\ LET g == Head(rq[r])
           path == rpath[r][1]
       IN  \/ /\ fs' = file_write(fs, path,
                        [kind |-> "report", by |-> r,
                         settings |-> settings[r], results |-> g.results])
              /\ clobbered' = IF path \in DOMAIN fs
                              THEN clobbered \cup {path} ELSE clobbered
              /\ nWrites' = nWrites + 1
              /\ reports' = [reports EXCEPT ![r] = Append(@, path)]
              /\ UNCHANGED rfailed
           \/ /\ rfailed' = [rfailed EXCEPT ![r] = @ + 1]
              /\ UNCHANGED <<fs, clobbered, nWrites, reports>>
    /\ rq' = [rq EXCEPT ![r] = Tail(@)]
    /\ rpath' = [rpath EXCEPT ![r] = None]
    /\ pc' = [pc EXCEPT ![r] = "report"]
    /\ UNCHANGED <<registry, dirs, cancelv, inputs, loopv, rcalls, how, budget,
                   calc>>

\* stamp_batch_with_progress returns its results; the worker closure ends
\* and BatchRequestGuard::drop clears the request (batch.rs:16-20).
Return(r) ==
    /\ pc[r] = "report"
    /\ rq[r] = <<>>
    /\ registry' = IF rid[r] # NoId
                   THEN clear_cancellation_request(registry, rid[r])
                   ELSE registry
    /\ pc' = [pc EXCEPT ![r] = "done"]
    /\ UNCHANGED <<fs, dirs, clobbered, nWrites, cancelv, inputs, loopv, reportv, how, budget, calc>>

\* The worker panics while a file is being processed: unwinding drops the
\* guard, the join error becomes a failure result for every path
\* (lib.rs:172-183).
Panic(r) ==
    /\ pc[r] \in {"stamp", "save"}
    /\ rid[r] # NoId
    /\ registry' = clear_cancellation_request(registry, rid[r])
    /\ results' = [results EXCEPT ![r] = host_failure(paths[r], ErrWorker)]
    /\ outPath' = [outPath EXCEPT ![r] = None]
    /\ how' = [how EXCEPT ![r] = "panic"]
    /\ pc' = [pc EXCEPT ![r] = "done"]
    /\ staged' = [staged EXCEPT ![r] = None]
    /\ UNCHANGED <<fs, dirs, clobbered, nWrites, cancelv, inputs, index, events,
                   midCancel, calls, reportv, budget, calc>>

\* ------------------------------------------------------------ specifications
InitRuns ==
    /\ registry = <<>>
    /\ clobbered = {}
    /\ nWrites = 0
    /\ nCancels = 0
    /\ lastCancel = None
    /\ pc = [r \in Runs |-> "idle"]
    /\ rid = [r \in Runs |-> NoId]
    /\ paths = [r \in Runs |-> <<>>]
    /\ override = [r \in Runs |-> None]
    /\ settings = [r \in Runs |-> DefaultSettings]
    /\ sizeBy = [r \in Runs |-> None]
    /\ calls = [r \in Runs |-> <<>>]
    /\ staged = [r \in Runs |-> None]
    /\ arg = None
    /\ ret = None
    /\ index = [r \in Runs |-> 0]
    /\ results = [r \in Runs |-> <<>>]
    /\ events = [r \in Runs |-> <<>>]
    /\ midCancel = [r \in Runs |-> <<>>]
    /\ outPath = [r \in Runs |-> None]
    /\ rq = [r \in Runs |-> <<>>]
    /\ rpath = [r \in Runs |-> None]
    /\ reports = [r \in Runs |-> <<>>]
    /\ rfailed = [r \in Runs |-> 0]
    /\ rcalls = [r \in Runs |-> 0]
    /\ how = [r \in Runs |-> "none"]
    /\ used = 0
    /\ batches = 0

\* Worker steps around the stamping of a file.
Around(r) ==
    \/ begin_cancellation_request(r)
    \/ Check(r)
    \/ Save(r)
    \/ ReportAlloc(r)
    \/ write_report_file(r)
    \/ Return(r)
    \/ Panic(r)

\* Worker steps other than the invocation.
Work(r) ==
    \/ begin_cancellation_request(r)
    \/ Check(r)
    \/ Stamp(r)
    \/ Save(r)
    \/ ReportAlloc(r)
    \/ write_report_file(r)
    \/ Return(r)
    \/ Panic(r)

\* Concurrent host: commands overlap, output directories start empty.
Init == InitRuns /\ fs = <<>> /\ dirs = {"A", "B"}

Next ==
    \/ \E r \in Runs : Invoke(r)
    \/ \E r \in Runs : Work(r)
    \/ \E id \in RequestIds : cancel_cancellation_request(id)

Spec == Init /\ [][Next]_vars

\* A single batch command, of every kind and with every input, and cancel
\* commands at any moment.
RunNext ==
    \/ \E r \in Runs : InvokeOnce(r)
    \/ \E r \in Runs : Work(r)
    \/ \E id \in RequestIds : cancel_cancellation_request(id)

RunSpec == Init /\ [][RunNext]_vars

\* Batches executed one after another over the same directories.
SeqNext ==
    \/ \E r \in Runs : InvokeAlone(r)
    \/ \E r \in Runs : Work(r)

SeqSpec == Init /\ [][SeqNext]_vars

\* One batch into an output directory holding any subset of ProbeNames.
ProbeInit ==
    /\ InitRuns
    /\ dirs = {"A", "B", ProbeDir}
    /\ \E S \in SUBSET ProbeNames :
          fs = [q \in {FilePath(ProbeDir, n) : n \in S} |-> [kind |-> "old"]]

ProbeNext ==
    \/ \E r \in Runs : InvokeProbe(r)
    \/ \E r \in Runs : Work(r)

ProbeSpec == ProbeInit /\ [][ProbeNext]_vars

\* One batch over inputs of every kind.
KindNext ==
    \/ \E r \in Runs : InvokeKinds(r)
    \/ \E r \in Runs : Work(r)

KindSpec == Init /\ [][KindNext]_vars

\* The paths of a batch that comes with per-path sizes.
SizedPaths ==
    {[dir |-> "A", stem |-> "a", ext |-> Some("png")],
     [dir |-> "B", stem |-> "a", ext |-> Some("pdf")]}
\* The f32 values a per-path size may be.
OverrideValues == {NaN, PosInf, NegInf, Fin(0), Fin(30), Fin(400)}
\* size_percent_by_path: absent, or a map over some of the paths.
SizeMaps ==
    {None} \cup {Some(m) : m \in UNION {[D -> OverrideValues] :
                                         D \in SUBSET SizedPaths}}
\* The settings of such a batch: with or without an explicit size.
SizedSettings ==
    {DefaultSettings,
     StampSettingsInput("top-left", "large", Some(Fin(40)), Fin(5))}

\* One stamp_batch_progress command with per-path sizes (lib.rs:114-170).
InvokeSized(r) ==
    /\ r = Workers[1]
    /\ pc[r] = "idle"
    /\ InvokeWith(r, SizedPaths, {"r1"}, {None}, SizedSettings, SizeMaps)

SizedNext ==
    \/ \E r \in Runs : InvokeSized(r)
    \/ \E r \in Runs : Work(r)

SizedSpec == Init /\ [][SizedNext]_vars

\* The settings payloads of a command: a position, recognised or not; a
\* preset label, recognised, unrecognised or left out; a size percentage,
\* left out, finite or not finite.
Payloads ==
    [position : {"top-left", "bottom-right", "center"},
     size_preset : {None, Some("large"), Some("huge")},
     size_percent : {None, Some(Fin(300)), Some(NaN), Some(PosInf)},
     margin_percent : {Fin(0)}]

\* One payload is deserialised and resolved by both stampers.
ResolvePayload ==
    /\ arg = None
    /\ batches = 0
    /\ \E payload \in Payloads :
          /\ arg' = Some([fn |-> "deserialize", payload |-> payload])
          /\ ret' = Some([image |-> image_try_from(deserialize(payload)),
                          pdf |-> pdf_try_from(deserialize(payload))])
    /\ UNCHANGED <<shared, cancelv, pc, inputs, loopv, reportv, how, budget>>

\* One stamp_batch_progress command with any of the payloads as settings.
InvokePayload(r) ==
    /\ r = Workers[1]
    /\ pc[r] = "idle"
    /\ arg = None
    /\ InvokeWith(r, MediaPaths, {"r1"}, {None},
                  {deserialize(payload) : payload \in Payloads}, {None})

PayloadNext ==
    \/ ResolvePayload
    \/ \E r \in Runs : InvokePayload(r)
    \/ \E r \in Runs : Work(r)

PayloadSpec == Init /\ [][PayloadNext]_vars

\* The paths of a batch that is cancelled: images in two directories and a
\* file of no supported kind.
CancelPaths ==
    {[dir |-> "A", stem |-> "a", ext |-> Some("png")],
     [dir |-> "B", stem |-> "b", ext |-> Some("jpg")],
     [dir |-> "A", stem |-> "n", ext |-> Some("txt")]}

\* One stamp_batch_progress command and cancel commands at any moment; the
\* worker thread, once spawned, keeps being scheduled until its closure
\* has ended.
InvokeCancellable(r) ==
    /\ r = Workers[1]
    /\ pc[r] = "idle"
    /\ InvokeWith(r, CancelPaths, {"r1"}, {None}, {DefaultSettings}, {None})

CancelNext ==
    \/ \E r \in Runs : InvokeCancellable(r)
    \/ \E r \in Runs : Work(r)
    \/ \E id \in RequestIds : cancel_cancellation_request(id)

CancelSpec ==
    /\ Init
    /\ [][CancelNext]_vars
    /\ \A r \in Runs : WF_vars(Work(r))

\* One batch over files of every condition.
MediaNext ==
    \/ \E r \in Runs : InvokeMedia(r)
    \/ \E r \in Runs : StampAny(r)
    \/ \E r \in Runs : Around(r)

MediaSpec == Init /\ [][MediaNext]_vars

\* ------------------------------------------------------------ settings calls
\* The f32 values a payload may carry as size or margin percentage.
SizeValues ==
    {Fin(n) : n \in {-5, 0, 1, 2, 49, 50, 51, 299, 300, 301, 1000}}
        \cup {NaN, PosInf, NegInf}
MarginValues ==
    {Fin(n) : n \in {-1, 0, 2, 20, 21}} \cup {NaN, PosInf, NegInf}

\* The settings payloads: any label, recognised or not, with or without an
\* explicit size percentage.
SettingsInputs ==
    {StampSettingsInput(position, size_preset, size_percent, margin_percent) :
        position \in Positions \cup {"center"},
        size_preset \in Presets \cup {"huge"},
        size_percent \in {None} \cup {Some(v) : v \in SizeValues},
        margin_percent \in MarginValues}

\* One payload is resolved by both stampers.
ResolveSettings ==
    /\ arg = None
    /\ \E value \in SettingsInputs :
          /\ arg' = Some([fn |-> "try_from", value |-> value])
          /\ ret' = Some([image |-> image_try_from(value),
                          pdf |-> pdf_try_from(value)])
    /\ UNCHANGED <<shared, cancelv, pc, inputs, loopv, reportv, how, budget>>

SettingsNext == ResolveSettings

SettingsSpec == Init /\ [][SettingsNext]_vars

\* ------------------------------------------------------------ placement calls
\* Payloads that resolve: a recognised position, an explicit finite size
\* percentage or a preset, a margin that is a number or NaN (try_from
\* accepts both).
ValidInputs ==
    {StampSettingsInput(position, "medium", size_percent, margin_percent) :
        position \in Positions,
        size_percent \in {None} \cup
            {Some(Fin(n)) : n \in {1, 50, 100, 150, 300}},
        margin_percent \in {Fin(0), Fin(2), Fin(20), NaN}}

\* One placement by each stamper: the same canvas size (an image's pixel
\* dimensions, a page's width and height), logo and payload.
Place ==
    /\ arg = None
    /\ \E width \in 1..MaxSide, height \in 1..MaxSide,
          logo_w \in 1..MaxLogo, logo_h \in 1..MaxLogo,
          value \in ValidInputs :
          /\ arg' = Some([fn |-> "place", width |-> width, height |-> height,
                          logo |-> Raster(logo_w, logo_h), value |-> value])
          /\ ret' = Some([image |-> image_place(width, height,
                                       Raster(logo_w, logo_h),
                                       image_try_from(value).val),
                          pdf |-> compute_logo_rect(width, height,
                                       pdf_try_from(value).val,
                                       Raster(logo_w, logo_h)).val])
    /\ UNCHANGED <<shared, cancelv, pc, inputs, loopv, reportv, how, budget>>

PlaceNext == Place

PlaceSpec == Init /\ [][PlaceNext]_vars

\* ------------------------------------------------------------ page-size calls
\* The values a dictionary may hold under MediaBox, by name: a box of width
\* 3 and height 2 away from the origin, the same through a reference, and
\* the malformed ones.  A reference points at object id target.
BoxKinds == {"good", "indirect", "short", "not a number", "empty",
             "negative", "not an array", "dangling", "indirect other"}
BoxOfKind(kind, target) ==
    CASE kind = "good" -> BoxArray(<<Num(1), Num(1), Num(4), Num(3)>>)
      [] kind = "indirect" -> BoxRef(target)
      [] kind = "short" -> BoxArray(<<Num(0), Num(0), Num(3)>>)
      [] kind = "not a number" -> BoxArray(<<Num(0), NotNum, Num(3), Num(2)>>)
      [] kind = "empty" -> BoxArray(<<Num(1), Num(0), Num(1), Num(2)>>)
      [] kind = "negative" -> BoxArray(<<Num(0), Num(5), Num(3), Num(2)>>)
      [] kind = "not an array" -> BoxOther
      [] kind = "dangling" -> BoxRef(target + 2)
      [] kind = "indirect other" -> BoxRef(target + 1)

\* How the chain goes on after its last dictionary: it has no Parent, its
\* Parent is the page again, its Parent is an absent object, or its Parent
\* is an object that is no dictionary.
ChainEnds == {"none", "cycle", "absent", "other"}

\* A document whose first page is object 1 at the bottom of a chain of n
\* dictionaries (object i has Parent i + 1).  Dictionary box_at carries the
\* MediaBox of the given kind and every dictionary above it a 9 x 9 box;
\* box_at = 0 means no dictionary carries one.  Object n + 1 is an array
\* (the target of an indirect MediaBox) and object n + 2 no dictionary.
ChainPdf(n, box_at, kind, end) ==
    Document(
        [i \in 1..(n + 2) |->
            IF i = n + 1
            THEN ArrayObj(<<Num(1), Num(1), Num(4), Num(3)>>)
            ELSE IF i = n + 2 THEN OtherObj
            ELSE Dict(IF box_at = 0 \/ i < box_at THEN None
                      ELSE IF i = box_at THEN Some(BoxOfKind(kind, n + 1))
                      ELSE Some(Box(9, 9)),
                      IF i < n THEN Some(i + 1)
                      ELSE CASE end = "none" -> None
                             [] end = "cycle" -> Some(1)
                             [] end = "absent" -> Some(n + 3)
                             [] end = "other" -> Some(n + 2))],
        <<1>>, {})

\* The size of the first page of one document is resolved.
ResolvePage ==
    /\ arg = None
    /\ \E n \in 1..MaxChain, kind \in BoxKinds, end \in ChainEnds :
          \E box_at \in 0..n :
              /\ (box_at = 0 => kind = "good")
              /\ arg' = Some([fn |-> "resolve_page_size", n |-> n,
                              box_at |-> box_at, kind |-> kind, end |-> end])
              /\ ret' = Some(resolve_page_size(
                                 ChainPdf(n, box_at, kind, end), 1, 1))
    /\ UNCHANGED <<shared, cancelv, pc, inputs, loopv, reportv, how, budget>>

PageNext == ResolvePage

PageSpec == Init /\ [][PageNext]_vars

\* ------------------------------------------------------------ properties
\* The run's loop is over: stamp_batch_with_progress is writing reports or
\* has returned.
LoopOver(r) == pc[r] \in {"report", "rwrite", "done"} /\ how[r] # "none"

\* C1: whatever the inputs, the request id and the moment of a cancel, the
\* list a batch returns has one entry per input path, and entry i carries
\* input path i.
C1_ResultsMatchPaths ==
    \A r \in Runs :
        LoopOver(r) =>
            /\ Len(results[r]) = Len(paths[r])
            /\ \A i \in 1..Len(paths[r]) :
                  results[r][i].input_path = paths[r][i]

\* A run cancelled after its first file, with an unsupported file in it.
C1_Witness ==
    \E r \in Runs :
        /\ pc[r] = "done"
        /\ how[r] = "cancelled"
        /\ index[r] = 1
        /\ Len(paths[r]) = 2
        /\ results[r][1].error = Some(ErrUnsupported)
        /\ results[r][2].error = Some(ErrCancelled)


\* C2: when the check before file i finds the request cancelled, file i and
\* every later file get the cancelled result (ok false, no output path, the
\* fixed marker), no progress event is emitted for them, the loop stops, and
\* the results of the files before i stay as they were.
C2_CancelledState ==
    \A r \in Runs :
        how[r] = "cancelled" =>
            /\ LoopOver(r)
            /\ Len(results[r]) = Len(paths[r])
            /\ Len(events[r]) = index[r]
            /\ \A k \in (index[r] + 1)..Len(paths[r]) :
                  results[r][k] = [input_path |-> paths[r][k], ok |-> FALSE,
                                   output_path |-> None,
                                   error |-> Some(ErrCancelled)]

C2_CancelledStep ==
    \A r \in Runs :
        /\ ( /\ pc[r] = "check"
             /\ pc'[r] # "check"
             /\ index[r] < Len(paths[r])
             /\ rid[r] # NoId
             /\ is_request_cancelled(registry, rid[r]) )
           => /\ how'[r] = "cancelled"
              /\ index'[r] = index[r]
              /\ SubSeq(results'[r], 1, index[r]) = results[r]
              /\ events'[r] = events[r]
        /\ (how[r] = "cancelled" /\ how'[r] = "cancelled")
           => /\ results'[r] = results[r]
              /\ events'[r] = events[r]

C2_CancelStopsRun == []C2_CancelledState /\ [][C2_CancelledStep]_vars

\* A run whose first file succeeded and whose second file was cancelled.
C2_Witness ==
    \E r \in Runs :
        /\ pc[r] = "done"
        /\ how[r] = "cancelled"
        /\ index[r] = 1
        /\ Len(paths[r]) = 2
        /\ results[r][1].ok
        /\ Len(events[r]) = 1

\* The worker of r has registered its request and not yet dropped its guard.
InRun(r) ==
    rid[r] # NoId /\ pc[r] \in {"check", "stamp", "save", "report", "rwrite"}

\* C3: once the request id of a run is cancelled, the flag reads true until
\* that run ends.
C3_StickyCancel ==
    [][\A r \in Runs :
          (InRun(r) /\ InRun(r)' /\ is_request_cancelled(registry, rid[r]))
              => is_request_cancelled(registry', rid[r])]_vars

\* C4: a file whose cancellation check passed is never marked cancelled: it
\* gets the outcome of its stamper (or the unsupported-type failure) and its
\* progress event, also when the cancel arrives while it is processed.
C4_NoPreemption ==
    \A r \in Runs :
        how[r] \in {"none", "normal", "cancelled"} =>
            \A j \in 1..index[r] :
                LET res == results[r][j]
                    p == paths[r][j]
                IN  /\ res.error # Some(ErrCancelled)
                    /\ Len(events[r]) >= j
                    /\ events[r][j].input_path = p
                    /\ events[r][j].ok = res.ok
                    /\ IF detect_supported_image(p) = None /\ ~is_supported_pdf(p)
                       THEN res.error = Some(ErrUnsupported)
                       ELSE IF res.ok
                       THEN /\ res.output_path[1] \in DOMAIN fs
                            /\ fs[res.output_path[1]].input = p
                       ELSE res.error \in {Some(ErrImageRead), Some(ErrPdfLoad),
                                           Some(ErrSave),
                                           Some(ErrNotDir), Some(ErrMkdir)}

\* The cancel arrived while the first file was being stamped: that file is
\* stamped, the next one is cancelled.
C4_Witness ==
    \E r \in Runs :
        /\ Len(results[r]) = 2
        /\ midCancel[r] = <<TRUE>>
        /\ results[r][1].ok
        /\ results[r][2].error = Some(ErrCancelled)

\* C5: one progress event per attempted file and none for a file skipped by
\* cancellation; the k-th event has done = k, total = len(paths), the k-th
\* input path and the ok of the k-th result.
C5_ProgressEvents ==
    \A r \in Runs :
        /\ \A k \in 1..Len(events[r]) :
              /\ events[r][k].done = k
              /\ events[r][k].total = Len(paths[r])
              /\ events[r][k].input_path = paths[r][k]
        /\ how[r] \in {"none", "normal", "cancelled"} =>
              /\ Len(events[r]) =
                    Cardinality({k \in 1..Len(results[r]) :
                                    results[r][k].error # Some(ErrCancelled)})
              /\ \A k \in 1..Len(events[r]) :
                    events[r][k].ok = results[r][k].ok

\* A finished run with two events, one for a success and one for a failure.
C5_Witness ==
    \E r \in Runs :
        /\ pc[r] = "done"
        /\ how[r] = "normal"
        /\ Len(events[r]) = 2
        /\ events[r][1].ok
        /\ ~events[r][2].ok

\* C6: the entry made by begin_cancellation_request(R) is gone when the run
\* ends, on every exit: after the guard is dropped is_request_cancelled(R) is
\* false, a cancel of R finds no entry unless another run holds R, and no
\* entry is left without a run.
C6_NoStaleEntry ==
    \A id \in DOMAIN registry : \E r \in Runs : rid[r] = id /\ InRun(r)

C6_DropStep ==
    /\ \A r \in Runs :
          (InRun(r) /\ pc'[r] = "done")
              => /\ rid[r] \notin DOMAIN registry'
                 /\ ~is_request_cancelled(registry', rid[r])
    /\ (nCancels' # nCancels /\ lastCancel'[1].ret)
          => \E r \in Runs : rid[r] = lastCancel'[1].id /\ InRun(r)

C6_EntryRemoved == []C6_NoStaleEntry /\ [][C6_DropStep]_vars

\* A worker panicked, and a cancel of its request id afterwards found nothing.
C6_Witness ==
    \E r \in Runs :
        /\ how[r] = "panic"
        /\ pc[r] = "done"
        /\ rid[r] \notin DOMAIN registry
        /\ lastCancel = Some([id |-> rid[r], ret |-> FALSE])

\* C7: cancel returns true exactly when the registry holds the id, and then
\* the flag is true; for an unknown id it returns false, makes no entry and
\* changes no other entry.  An unknown id reads as not cancelled.
C7_CancelStep ==
    /\ nCancels' # nCancels =>
          LET c == lastCancel'[1] IN
          /\ c.ret = (c.id \in DOMAIN registry)
          /\ c.ret => registry'[c.id] = TRUE
          /\ DOMAIN registry' = DOMAIN registry
          /\ \A k \in DOMAIN registry \ {c.id} : registry'[k] = registry[k]
    /\ \A r \in Runs :
          ( /\ pc[r] = "check"
            /\ pc'[r] # "check"
            /\ index[r] < Len(paths[r])
            /\ rid[r] \notin DOMAIN registry )
          => pc'[r] = "stamp"

C7_CancelContract == [][C7_CancelStep]_vars

\* A cancel found its id and set its flag while another request's entry
\* stayed unset.
C7_Witness ==
    /\ DOMAIN registry = {"r1", "r2"}
    /\ \E id \in RequestIds :
          /\ lastCancel = Some([id |-> id, ret |-> TRUE])
          /\ registry[id]
          /\ \A k \in RequestIds \ {id} : ~registry[k]


\* The name the allocator is to give: "<base>.<ext>" for k = 0 and
\* "<base>(k).<ext>" for k >= 1.
NumberedName(base, k, ext) ==
    IF k = 0 THEN base \o "." \o ext
    ELSE base \o "(" \o ToString(k) \o ")." \o ext

\* The output extension: the input's, lower-cased, for an image; pdf for a PDF.
ExpectedExt(p) ==
    CASE p.ext = Some("png") -> "png"
      [] p.ext = Some("PNG") -> "png"
      [] p.ext = Some("pdf") -> "pdf"

\* The output subfolder a run's file goes to.
ExpectedOutDir(r, p) ==
    IF override[r] # None THEN override[r][1] \o "/CornerBrand_Output"
    ELSE p.dir \o "/CornerBrand_Output"

\* C8: the path build_output_path / build_output_pdf_path returns does not
\* exist; it is "<stem>_cornerbrand.<ext>" when that is free and otherwise
\* "<stem>_cornerbrand(k).<ext>" for the smallest free k >= 1; no allocation
\* fails over a taken name (only over an unusable output directory).
C8_SmallestFreeName ==
    \A r \in Runs :
        /\ pc[r] = "save" =>
              LET p == paths[r][index[r] + 1]
                  out == ExpectedOutDir(r, p)
                  name(k) == NumberedName(p.stem \o "_cornerbrand", k,
                                          ExpectedExt(p))
              IN  /\ outPath[r][1] \notin DOMAIN fs
                  /\ \E k \in 0..Cardinality(DOMAIN fs) :
                        /\ outPath[r][1] = [dir |-> out, name |-> name(k)]
                        /\ \A j \in 0..(k - 1) :
                              [dir |-> out, name |-> name(j)] \in DOMAIN fs
        /\ \A j \in 1..Len(results[r]) :
              results[r][j].error \in {Some(ErrNotDir), Some(ErrMkdir)}
                  => override[r] = Some("F")

\* The plain name and (2) are taken: (1) is allocated.
C8_Witness ==
    \E r \in Runs :
        /\ pc[r] = "save"
        /\ outPath[r] = Some([dir |-> ProbeDir, name |-> "a_cornerbrand(1).png"])
        /\ [dir |-> ProbeDir, name |-> "a_cornerbrand.png"] \in DOMAIN fs
        /\ [dir |-> ProbeDir, name |-> "a_cornerbrand(2).png"] \in DOMAIN fs

\* C9: in batches run one after another no existing output or report file
\* is replaced: every successful write adds a file, names are taken in the
\* order plain, (1), (2), and two successful inputs of a batch never share
\* an output path.
C9_NeverOverwrites ==
    /\ clobbered = {}
    /\ Cardinality(DOMAIN fs) = nWrites
    /\ \A q \in DOMAIN fs :
          \E base \in {"a_cornerbrand", "cornerbrand_report"},
             ext \in {"png", "pdf", "json"},
             k \in 0..nWrites :
              /\ q.name = NumberedName(base, k, ext)
              /\ \A j \in 0..(k - 1) :
                    [dir |-> q.dir, name |-> NumberedName(base, j, ext)]
                        \in DOMAIN fs
    /\ \A r \in Runs : \A i, j \in 1..Len(results[r]) :
          (i < j /\ results[r][i].ok /\ results[r][j].ok)
              => results[r][i].output_path # results[r][j].output_path

\* Two inputs of one batch with the same stem and lower-cased extension go
\* to the same directory: the second is suffixed (1).
C9_Witness ==
    \E r \in Runs :
        /\ Len(results[r]) = 2
        /\ results[r][1].input_path # results[r][2].input_path
        /\ results[r][1].output_path =
              Some([dir |-> ProbeDir, name |-> "a_cornerbrand.png"])
        /\ results[r][2].output_path =
              Some([dir |-> ProbeDir, name |-> "a_cornerbrand(1).png"])
        /\ fs[results[r][1].output_path[1]].input = results[r][1].input_path
        /\ fs[results[r][2].output_path[1]].input = results[r][2].input_path

\* A batch with an override that has returned from stamp_batch_with_progress.
OverrideRunDone(r) ==
    pc[r] = "done" /\ how[r] \in {"normal", "cancelled"} /\ override[r] # None

\* C10 as stated: with an override a batch writes exactly one report, in the
\* override's output subfolder, with one entry per input path in order, and
\* none in the output subfolder of an input's parent; the stamped outputs
\* are in the override's output subfolder.
C10_OneReportUnderOverride ==
    \A r \in Runs :
        OverrideRunDone(r) =>
            LET out == override[r][1] \o "/CornerBrand_Output" IN
            /\ Len(reports[r]) = 1
            /\ reports[r][1].dir = out
            /\ Len(fs[reports[r][1]].results) = Len(paths[r])
            /\ \A i \in 1..Len(paths[r]) :
                  /\ fs[reports[r][1]].results[i].input_path = paths[r][i]
                  /\ reports[r][1].dir # paths[r][i].dir \o "/CornerBrand_Output"
                  /\ results[r][i].ok => results[r][i].output_path[1].dir = out

\* C10 amended: with an override a batch makes exactly one attempt at a
\* report; it writes one report unless that attempt fails (then none), the
\* report is in the override's output subfolder with the batch's results in
\* input order, no report goes to the output subfolder of a parent directory
\* other than the override, and the stamped outputs are in the override's
\* output subfolder.
C10_AtMostOneReportUnderOverride ==
    \A r \in Runs :
        OverrideRunDone(r) =>
            LET out == override[r][1] \o "/CornerBrand_Output" IN
            /\ Len(reports[r]) + rfailed[r] = 1
            /\ \A k \in 1..Len(reports[r]) :
                  /\ reports[r][k].dir = out
                  /\ fs[reports[r][k]].results = results[r]
                  /\ Len(fs[reports[r][k]].results) = Len(paths[r])
                  /\ \A i \in 1..Len(paths[r]) :
                        /\ fs[reports[r][k]].results[i].input_path = paths[r][i]
                        /\ paths[r][i].dir # override[r][1] =>
                              reports[r][k].dir #
                                  paths[r][i].dir \o "/CornerBrand_Output"
            /\ \A i \in 1..Len(paths[r]) :
                  results[r][i].ok => results[r][i].output_path[1].dir = out

\* Inputs from two parent directories, an override, one report written.
C10_Witness ==
    \E r \in Runs :
        /\ OverrideRunDone(r)
        /\ Len(paths[r]) = 2
        /\ paths[r][1].dir = "A"
        /\ paths[r][2].dir = "B"
        /\ results[r][1].ok
        /\ reports[r] = <<[dir |-> ProbeDir, name |-> "cornerbrand_report.json"]>>

\* A batch without an override that has returned from
\* stamp_batch_with_progress.
GroupedRunDone(r) ==
    pc[r] = "done" /\ how[r] \in {"normal", "cancelled"} /\ override[r] = None

\* The parent directories of a run's inputs.
Parents(r) == {paths[r][i].dir : i \in 1..Len(paths[r])}

\* The results of a run whose input lies in directory d, in batch order.
ResultsIn(r, d) == SelectSeq(results[r], LAMBDA x : x.input_path.dir = d)

\* C11: without an override the writer works through one report per
\* distinct parent directory of the inputs; a report that is written lies in
\* its parent's output subfolder and holds exactly the results whose input
\* has that parent, in batch order, and no parent gets two reports; when no
\* write fails there is exactly one report per parent and every result of
\* the batch is in exactly one report.
C11_ReportPerParent ==
    \A r \in Runs :
        GroupedRunDone(r) =>
            /\ Len(reports[r]) + rfailed[r] = Cardinality(Parents(r))
            /\ \A k \in 1..Len(reports[r]) :
                  \E d \in Parents(r) :
                      /\ reports[r][k].dir = Join(d, OUTPUT_DIR_NAME)
                      /\ fs[reports[r][k]].kind = "report"
                      /\ fs[reports[r][k]].results = ResultsIn(r, d)
            /\ \A j, k \in 1..Len(reports[r]) :
                  j # k => reports[r][j].dir # reports[r][k].dir
            /\ rfailed[r] = 0 =>
                  /\ \A d \in Parents(r) :
                        Cardinality({k \in 1..Len(reports[r]) :
                            reports[r][k].dir = Join(d, OUTPUT_DIR_NAME)}) = 1
                  /\ \A i \in 1..Len(results[r]) :
                        Cardinality({k \in 1..Len(reports[r]) :
                            \E n \in 1..Len(fs[reports[r][k]].results) :
                                /\ fs[reports[r][k]].results[n] = results[r][i]
                                /\ reports[r][k].dir =
                                      Join(results[r][i].input_path.dir,
                                           OUTPUT_DIR_NAME)}) = 1

\* Inputs from two parent directories, no override: two reports, one result
\* in each.
C11_Witness ==
    \E r \in Runs :
        /\ GroupedRunDone(r)
        /\ Len(paths[r]) = 2
        /\ paths[r][1].dir = "B"
        /\ paths[r][2].dir = "A"
        /\ Len(reports[r]) = 2
        /\ reports[r][1].dir = "A/CornerBrand_Output"
        /\ fs[reports[r][1]].results = <<results[r][2]>>
        /\ fs[reports[r][2]].results = <<results[r][1]>>

\* The run is inside write_reports.
Reporting(r) == pc[r] \in {"report", "rwrite"}

\* C12: whatever happens to a report (its path cannot be allocated, it
\* cannot be serialised or written), write_reports goes on to its end and the
\* batch returns the results the loop left, the same as when every report is
\* written; with grouping, the groups after a failed one still get their
\* reports.
C12_ReportState ==
    \A r \in Runs :
        /\ Reporting(r) =>
              ENABLED (ReportAlloc(r) \/ write_report_file(r) \/ Return(r))
        /\ (pc[r] = "done" /\ how[r] \in {"normal", "cancelled"}) =>
              /\ rq[r] = <<>>
              /\ Len(results[r]) = Len(paths[r])
              /\ override[r] = None =>
                    Len(reports[r]) = Cardinality(Parents(r)) - rfailed[r]

C12_ReportStep ==
    \A r \in Runs :
        Reporting(r) =>
            /\ results'[r] = results[r]
            /\ events'[r] = events[r]
            /\ how'[r] = how[r]
            /\ pc'[r] \in {"report", "rwrite", "done"}
            /\ (rfailed'[r] # rfailed[r] /\ override[r] = None)
                  => /\ rq'[r] = Tail(rq[r])
                     /\ pc'[r] = "report"

C12_BestEffortReports == []C12_ReportState /\ [][C12_ReportStep]_vars

\* The report of the first group failed, the report of the second group was
\* written, and the batch returned its two results, one of them a success.
C12_Witness ==
    \E r \in Runs :
        /\ GroupedRunDone(r)
        /\ Cardinality(Parents(r)) = 2
        /\ rfailed[r] = 1
        /\ Len(reports[r]) = 1
        /\ reports[r][1].dir = "B/CornerBrand_Output"
        /\ Len(results[r]) = 2
        /\ results[r][1].ok

\* StampFileResult's invariant: an output path and no error when ok, an
\* error and no output path when not.
WellFormed(res) ==
    /\ res.ok => (res.output_path # None /\ res.error = None)
    /\ ~res.ok => (res.error # None /\ res.output_path = None)

\* C13: every result the program produces (by a stamper, for an unsupported
\* type, for a cancelled file, for a logo that cannot be resolved, for a
\* worker that died), in the results of a run, in a report on disk or in a
\* report group waiting to be written, is well formed.
C13_ResultWellFormed ==
    /\ \A r \in Runs :
          /\ \A i \in 1..Len(results[r]) : WellFormed(results[r][i])
          /\ \A g \in 1..Len(rq[r]) :
                \A i \in 1..Len(rq[r][g].results) :
                    WellFormed(rq[r][g].results[i])
    /\ \A q \in DOMAIN fs :
          fs[q].kind = "report" =>
              \A i \in 1..Len(fs[q].results) : WellFormed(fs[q].results[i])

\* A returned batch with a stamped file and a file whose write failed.
C13_Witness ==
    \E r \in Runs :
        /\ pc[r] = "done"
        /\ Len(results[r]) = 2
        /\ results[r][1].ok
        /\ results[r][1].output_path # None
        /\ results[r][2].error = Some(ErrSave)
        /\ \E q \in DOMAIN fs : fs[q].kind = "report"

\* C14: a payload with a recognised position and a finite explicit size
\* percentage p always resolves; size_ratio is clamp(p, 1, 300) / 100 for an
\* image and clamp(p, 1, 50) / 100 for a PDF (ratios in hundredths here), the
\* margin is the payload's brought into [0, 20]; so size_ratio is in (0, 3.0]
\* and margin_percent in [0, 20], and 300 and 1000 resolve alike for images.
C14_SettingsClamped ==
    (arg # None /\ arg[1].fn = "try_from") =>
        LET value == arg[1].value
            image == ret[1].image
            pdf == ret[1].pdf
            Within(v, lo, hi) == IF v < lo THEN lo ELSE IF v > hi THEN hi ELSE v
        IN  ( /\ value.position \in Positions
              /\ value.size_percent # None
              /\ value.size_percent[1].k = "fin" )
            => LET p == value.size_percent[1].v IN
               /\ image.ok
               /\ pdf.ok
               /\ image.val.size_ratio = Within(p, 1, 300)
               /\ pdf.val.size_ratio = Within(p, 1, 50)
               /\ image.val.size_ratio > 0 /\ image.val.size_ratio <= 300
               /\ pdf.val.size_ratio > 0 /\ pdf.val.size_ratio <= 300
               /\ \A m \in {image.val.margin_percent, pdf.val.margin_percent} :
                     /\ m.k = "fin"
                     /\ m.v >= 0 /\ m.v <= 20
                     /\ value.margin_percent.k = "fin"
                           => m.v = Within(value.margin_percent.v, 0, 20)
               /\ p = 1000 =>
                     image = image_try_from(
                                 [value EXCEPT !.size_percent = Some(Fin(300))])

\* The rectangle lies within a canvas of the given size (lengths of the
\* rectangle are in units of 1 / den).
InCanvas(rect, width, height) ==
    /\ 0 <= rect.x
    /\ 0 <= rect.y
    /\ rect.x + rect.w <= width * rect.den
    /\ rect.y + rect.h <= height * rect.den

\* C15: for every canvas of at least 1 x 1, every logo of at least 1 x 1,
\* every corner and every valid resolved setting, the rectangle of the image
\* stamper and the rectangle of the PDF stamper lie within the canvas.
C15_PlacementInCanvas ==
    (arg # None /\ arg[1].fn = "place") =>
        /\ InCanvas(ret[1].image, arg[1].width, arg[1].height)
        /\ InCanvas(ret[1].pdf, arg[1].width, arg[1].height)

\* The spellings of the supported extensions among the inputs.
ImageSpellings == {"jpg", "Jpeg", "WebP", "PNG", "png"}
PdfSpellings == {"PdF", "pdf"}

\* The kind the extension of a path stands for.
KindOf(p) ==
    IF p.ext # None /\ p.ext[1] \in ImageSpellings THEN "image"
    ELSE IF p.ext # None /\ p.ext[1] \in PdfSpellings THEN "pdf"
    ELSE "none"

\* C16: every attempted path is handed to the stamper its extension stands
\* for, whatever the case of its letters: the image stamper for jpg, jpeg,
\* png and webp, the PDF stamper for pdf, none for anything else or no
\* extension; a path of no kind gets the fixed unsupported-type failure, the
\* logo is not read for it and no output file is written for it.
C16_Classification ==
    \A r \in Runs :
        \A j \in 1..Len(calls[r]) :
            LET p == paths[r][j] IN
            /\ calls[r][j].stamper = KindOf(p)
            /\ KindOf(p) = "none" =>
                  /\ ~calls[r][j].logo_read
                  /\ \A q \in DOMAIN fs :
                        fs[q].kind = "stamped" => fs[q].input # p
                  /\ (how[r] \in {"none", "normal", "cancelled"}
                      /\ j <= Len(results[r]))
                        => results[r][j] =
                              [input_path |-> p, ok |-> FALSE,
                               output_path |-> None,
                               error |-> Some(ErrUnsupported)]

\* A returned batch of a "Jpeg" file, which was stamped, and a file without
\* extension, which was refused.
C16_Witness ==
    \E r \in Runs :
        /\ pc[r] = "done"
        /\ how[r] = "normal"
        /\ Len(paths[r]) = 2
        /\ paths[r][1].ext = Some("Jpeg")
        /\ paths[r][2].ext = None
        /\ calls[r] = <<[stamper |-> "image", logo_read |-> TRUE,
                         inserted |-> 1, pages |-> 0,
                         settings |-> DefaultSettings,
                         logo |-> Some(Raster(2, 1))],
                        [stamper |-> "none", logo_read |-> FALSE,
                         inserted |-> 0, pages |-> 0,
                         settings |-> DefaultSettings, logo |-> None]>>
        /\ results[r][1].ok
        /\ results[r][2].error = Some(ErrUnsupported)

\* The run is in its file loop and has not been aborted.
InLoop(r) == pc[r] \in {"check", "stamp", "save"} /\ how[r] = "none"

\* C17: in a run that is not cancelled a failure of a file becomes the
\* result of that file and nothing else: the results before it stay, the
\* loop goes on to the next file, and when the loop is over every file has
\* been attempted and has a result of its own.
C17_LoopState ==
    \A r \in Runs :
        /\ how[r] \in {"none", "normal"} =>
              /\ Len(results[r]) = index[r]
              /\ Len(calls[r]) \in {index[r], index[r] + 1}
              /\ \A j \in 1..index[r] : results[r][j].input_path = paths[r][j]
        /\ how[r] = "normal" =>
              /\ Len(calls[r]) = Len(paths[r])
              /\ Len(results[r]) = Len(paths[r])

C17_LoopStep ==
    \A r \in Runs :
        (InLoop(r) /\ how'[r] # "panic") =>
            /\ SubSeq(results'[r], 1, Len(results[r])) = results[r]
            /\ Len(results'[r]) \in {Len(results[r]), Len(results[r]) + 1}
            /\ Len(results'[r]) = Len(results[r]) + 1 =>
                  /\ pc'[r] = "check"
                  /\ index'[r] = index[r] + 1
            /\ (pc[r] = "check" /\ index[r] < Len(paths[r])
                 /\ ~is_request_cancelled(registry, rid[r]))
                  => pc'[r] = "stamp"

C17_OneBadFile == []C17_LoopState /\ [][C17_LoopStep]_vars

\* A PDF whose second page has no MediaBox fails, the image after it is
\* stamped.
C17_Witness ==
    \E r \in Runs :
        /\ pc[r] = "done"
        /\ how[r] = "normal"
        /\ Len(paths[r]) = 2
        /\ results[r][1].error = Some(ErrPageNoMediaBox(2))
        /\ results[r][2].ok
        /\ Len(calls[r]) = 2

\* C18: the size of a page is decided by the first dictionary with a
\* MediaBox among the first 32 on its Parent chain, as width = urx - llx and
\* height = ury - lly, a malformed or non-positive box being an error; when
\* there is none among them - the chain ends, runs into an object that is no
\* dictionary, is a cycle or is longer than 32 - the result is an error; no
\* more than 32 dictionaries are looked at.
C18_PageSizeBounded ==
    (arg # None /\ arg[1].fn = "resolve_page_size") =>
        LET a == arg[1]
            out == ret[1]
            found == a.box_at >= 1 /\ a.box_at <= 32
        IN  /\ out.inspected <= 32
            /\ found =>
                  /\ out.inspected = a.box_at
                  /\ IF a.kind \in {"good", "indirect"}
                     THEN out.res = Ok([width |-> 3, height |-> 2])
                     ELSE out.res = Err(ErrPageMediaBox(1))
            /\ ~found =>
                  /\ ~out.res.ok
                  /\ out.res.val \in {ErrPageNoMediaBox(1), ErrPageObject(1)}
                  /\ (a.n > 32 \/ a.end = "cycle") => out.inspected = 32
                  /\ (a.n <= 32 /\ a.end # "cycle") => out.inspected = a.n

\* A cycle of three dictionaries without a MediaBox: an error after 32
\* dictionaries.
C18_Witness ==
    /\ arg # None
    /\ arg[1].fn = "resolve_page_size"
    /\ arg[1].n = 3
    /\ arg[1].box_at = 0
    /\ arg[1].end = "cycle"
    /\ ret[1].res = Err(ErrPageNoMediaBox(1))
    /\ ret[1].inspected = 32

\* The errors that name page n.
PageErrors(n) ==
    {ErrPageObject(n), ErrPageMediaBox(n), ErrPageNoMediaBox(n),
     ErrPageInsert(n)}

\* C19: when a page of a PDF fails (its size cannot be resolved, the logo
\* cannot be inserted), the file gets one failure result that names that
\* page - the page after the ones already stamped in memory - and the step
\* allocates no output path, creates no directory and writes no file.
C19_PdfStep ==
    \A r \in Runs :
        ( /\ pc[r] = "stamp"
          /\ pc'[r] = "check"
          /\ is_supported_pdf(paths[r][index[r] + 1])
          /\ Len(calls'[r]) = index[r] + 1
          /\ calls'[r][index[r] + 1].inserted
                 < calls'[r][index[r] + 1].pages )
        => LET res == results'[r][index[r] + 1]
               k == calls'[r][index[r] + 1].inserted + 1
           IN  /\ res = [input_path |-> paths[r][index[r] + 1], ok |-> FALSE,
                         output_path |-> None, error |-> res.error]
               /\ res.error # None
               /\ res.error[1] \in PageErrors(k)
               /\ Len(results'[r]) = Len(results[r]) + 1
               /\ outPath'[r] = None
               /\ staged'[r] = None
               /\ dirs' = dirs
               /\ fs' = fs
               /\ nWrites' = nWrites

C19_PdfAllOrNothing == [][C19_PdfStep]_vars

\* The first page of a PDF was stamped in memory, the second failed: the
\* result names page 2 and nothing is on disk.
C19_Witness ==
    \E r \in Runs :
        /\ Len(results[r]) = 1
        /\ Len(calls[r]) = 1
        /\ calls[r][1] = [stamper |-> "pdf", logo_read |-> TRUE,
                          inserted |-> 1, pages |-> 2,
                          settings |-> DefaultSettings,
                          logo |-> Some(Raster(2, 1))]
        /\ results[r][1].error = Some(ErrPageInsert(2))
        /\ DOMAIN fs = {}
        /\ dirs = {"A", "B"}

\* C20: a stamped PDF keeps its pages and carries one logo per page, each
\* placed by the size of its own page.  The document that loads and stamps
\* has a 300 x 300 page and a 100 x 200 page (objects 2 and 3), the logo is
\* 2 x 1, the settings are the defaults (bottom-right, 12 %, margin 2 %):
\* the logo is 36 x 18 at (258, 6) on the first page and 12 x 6 at (86, 2)
\* on the second, in units of 1/200.
C20_PagesStamped ==
    /\ \A p \in DOMAIN fs :
           (fs[p].kind = "stamped" /\ is_supported_pdf(fs[p].input)) =>
               fs[p].marks =
                   <<[page |-> 2,
                      rect |-> [x |-> 51600, y |-> 1200, w |-> 7200,
                                h |-> 3600, den |-> 200]],
                     [page |-> 3,
                      rect |-> [x |-> 17200, y |-> 400, w |-> 2400,
                                h |-> 1200, den |-> 200]]>>
    /\ \A r \in Runs :
           ( /\ pc[r] = "save"
             /\ is_supported_pdf(paths[r][index[r] + 1]) )
           => /\ staged[r] # None
              /\ Len(calls[r]) = index[r] + 1
              /\ Len(staged[r][1]) = calls[r][index[r] + 1].pages
              /\ calls[r][index[r] + 1].inserted
                     = calls[r][index[r] + 1].pages
              /\ \A i \in 1..Len(staged[r][1]) :
                     \A j \in 1..Len(staged[r][1]) :
                         i # j =>
                             /\ staged[r][1][i].page # staged[r][1][j].page
                             /\ staged[r][1][i].rect # staged[r][1][j].rect

\* A two-page PDF was stamped, saved and reported as a success.
C20_Witness ==
    \E r \in Runs :
        /\ Len(results[r]) = 1
        /\ results[r][1].ok
        /\ is_supported_pdf(results[r][1].input_path)
        /\ results[r][1].output_path # None
        /\ results[r][1].output_path[1] \in DOMAIN fs
        /\ Len(fs[results[r][1].output_path[1]].marks) = 2

\* The value an f32 ends at between 1 and 300: a number is moved to the
\* nearer end, the infinities to the ends, NaN stays NaN.
Within1To300(v) ==
    IF v.k = "nan" THEN NaN
    ELSE IF v.k = "inf" THEN (IF v = PosInf THEN Fin(300) ELSE Fin(1))
    ELSE IF v.v < 1 THEN Fin(1)
    ELSE IF v.v > 300 THEN Fin(300)
    ELSE v

\* C21: a file whose path is in size_percent_by_path is stamped with the
\* batch settings in which only the size percentage is replaced, by the
\* override brought between 1 and 300; a file whose path is not in the map
\* is stamped with the batch settings as they came, whatever the files
\* before it had; every report carries the settings as they came.
C21_OverridePerPath ==
    /\ \A r \in Runs :
          \A i \in 1..Len(calls[r]) :
             LET input == paths[r][i]
                 with == calls[r][i].settings
             IN  /\ with.position = settings[r].position
                 /\ with.size_preset = settings[r].size_preset
                 /\ with.margin_percent = settings[r].margin_percent
                 /\ IF sizeBy[r] # None /\ input \in DOMAIN sizeBy[r][1]
                    THEN with.size_percent =
                             Some(Within1To300(sizeBy[r][1][input]))
                    ELSE with = settings[r]
    /\ \A q \in DOMAIN fs :
          fs[q].kind = "report" => fs[q].settings = settings[fs[q].by]

\* The first file had an override of 400 and was stamped at 300; the
\* second, not in the map, was stamped with the batch's own 40; the report
\* shows 40.
C21_Witness ==
    \E r \in Runs :
        /\ pc[r] = "done"
        /\ Len(calls[r]) = 2
        /\ sizeBy[r] # None
        /\ paths[r][1] \in DOMAIN sizeBy[r][1]
        /\ paths[r][2] \notin DOMAIN sizeBy[r][1]
        /\ sizeBy[r][1][paths[r][1]] = Fin(400)
        /\ settings[r].size_percent = Some(Fin(40))
        /\ calls[r][1].settings.size_percent = Some(Fin(300))
        /\ calls[r][2].settings.size_percent = Some(Fin(40))
        /\ \E q \in DOMAIN fs :
              /\ fs[q].kind = "report"
              /\ fs[q].settings.size_percent = Some(Fin(40))

\* C22, resolution: an unrecognised position is an error whatever the size
\* fields are; with a recognised position an unrecognised preset is an
\* error exactly when no finite size percentage comes with it; everything
\* else resolves - a finite percentage to itself brought into the stamper's
\* range, otherwise the preset's ratio (the default preset when the label
\* was left out).  Ratios are in hundredths.
C22_Resolution ==
    (arg # None /\ arg[1].fn = "deserialize") =>
        LET payload == arg[1].payload
            good_position == payload.position \in Positions
            finite_size == /\ payload.size_percent # None
                           /\ payload.size_percent[1].k = "fin"
            good_preset == \/ payload.size_preset = None
                           \/ payload.size_preset[1] \in Presets
            label_ratio == IF payload.size_preset = None THEN 12
                           ELSE IF payload.size_preset[1] = "small" THEN 8
                           ELSE IF payload.size_preset[1] = "medium" THEN 12
                           ELSE 16
        IN  \A out \in {ret[1].image, ret[1].pdf} :
               /\ ~good_position => (~out.ok /\ out.val = ErrPosition)
               /\ (good_position /\ ~finite_size /\ ~good_preset)
                     => (~out.ok /\ out.val = ErrPreset)
               /\ (good_position /\ (finite_size \/ good_preset))
                     => /\ out.ok
                        /\ out.val.position = payload.position
                        /\ ~finite_size => out.val.size_ratio = label_ratio
                        /\ finite_size =>
                              out.val.size_ratio =
                                  (IF out = ret[1].image THEN 300 ELSE 50)

\* C22, effect: when the settings of a batch do not resolve, every image
\* and PDF path that is attempted gets the validation error as its result,
\* the logo is not read for it and no stamped file appears; when they do
\* resolve no result carries a validation error.
C22_Effect ==
    \A r \in Runs :
        LET st == settings[r]
            good_position == st.position \in Positions
            finite_size == st.size_percent # None /\ st.size_percent[1].k = "fin"
            good_preset == st.size_preset \in Presets
            expected == IF ~good_position THEN Some(ErrPosition)
                        ELSE IF ~finite_size /\ ~good_preset
                        THEN Some(ErrPreset)
                        ELSE None
        IN  how[r] = "none" =>
            /\ \A i \in 1..Len(calls[r]) :
                  (i <= Len(results[r]) /\ calls[r][i].stamper # "none") =>
                     IF expected # None
                     THEN /\ results[r][i] =
                                [input_path |-> paths[r][i], ok |-> FALSE,
                                 output_path |-> None, error |-> expected]
                          /\ ~calls[r][i].logo_read
                     ELSE results[r][i].error
                              \notin {Some(ErrPosition), Some(ErrPreset)}
            /\ expected # None =>
                  /\ outPath[r] = None
                  /\ \A q \in DOMAIN fs : fs[q].kind # "stamped"

C22_SettingsTotal == C22_Resolution /\ C22_Effect

\* A payload with sizePercent and without sizePreset resolved for both
\* stampers.
C22_Witness ==
    /\ arg # None
    /\ arg[1].fn = "deserialize"
    /\ arg[1].payload.position = "bottom-right"
    /\ arg[1].payload.size_preset = None
    /\ arg[1].payload.size_percent = Some(Fin(300))
    /\ ret[1].image.ok
    /\ ret[1].pdf.ok

\* A batch whose preset label is unknown and whose size percentage is not
\* finite ended with the validation error on its image and its PDF and
\* with a report as the only file.
C22_WitnessBatch ==
    \E r \in Runs :
        /\ pc[r] = "done"
        /\ settings[r].size_preset = "huge"
        /\ settings[r].size_percent = Some(NaN)
        /\ Len(results[r]) = 2
        /\ detect_supported_image(paths[r][1]) # None
        /\ is_supported_pdf(paths[r][2])
        /\ results[r][1].error = Some(ErrPreset)
        /\ results[r][2].error = Some(ErrPreset)
        /\ fs # <<>>

\* C23: in one run the logo file is read at most once, however many files
\* the run has, and all files see the same logo.
C23_LogoLoadedOnce ==
    \A r \in Runs :
        /\ Cardinality({i \in 1..Len(calls[r]) : calls[r][i].logo_read}) <= 1
        /\ \A i \in 1..Len(calls[r]) :
              \A j \in 1..Len(calls[r]) :
                 (calls[r][i].logo_read /\ calls[r][j].logo_read)
                     => calls[r][i].logo = calls[r][j].logo

\* C24, positions: write_reports has not been called while the run is in
\* its loop, has been called once while the reports are being written and
\* when the run has returned from stamp_batch_with_progress - after a loop
\* that ran to its end (an empty one too) and after a cancelled one.
C24_CalledOnce ==
    \A r \in Runs :
        /\ pc[r] \in {"idle", "spawned", "check", "stamp", "save"}
              => rcalls[r] = 0
        /\ pc[r] \in {"report", "rwrite"}
              => (rcalls[r] = 1 /\ how[r] \in {"normal", "cancelled"})
        /\ (pc[r] = "done" /\ how[r] \in {"normal", "cancelled"})
              => rcalls[r] = 1
        /\ (pc[r] = "done" /\ how[r] \notin {"normal", "cancelled"})
              => rcalls[r] = 0

\* C24, order: the call is handed one result per path, the cancelled ones
\* included, each of them in one of its groups, and emits no event; from
\* the call to the return no progress event is emitted and the results do
\* not change.
C24_CallStep ==
    \A r \in Runs :
        /\ rcalls'[r] = rcalls[r] + 1 =>
              /\ Len(results'[r]) = Len(paths[r])
              /\ \A i \in 1..Len(paths[r]) :
                    /\ results'[r][i].input_path = paths[r][i]
                    /\ \E g \in 1..Len(rq'[r]) :
                          \E n \in 1..Len(rq'[r][g].results) :
                             rq'[r][g].results[n] = results'[r][i]
              /\ events'[r] = events[r]
              /\ Len(events[r]) = index[r]
        /\ pc[r] \in {"report", "rwrite"} =>
              /\ events'[r] = events[r]
              /\ results'[r] = results[r]
              /\ rcalls'[r] = rcalls[r]

C24_ReportOncePerRun == [](C24_CalledOnce) /\ [][C24_CallStep]_vars

\* A run cancelled before its second file has returned; write_reports was
\* called once and the report lists the cancelled result.
C24_Witness ==
    \E r \in Runs :
        /\ pc[r] = "done"
        /\ how[r] = "cancelled"
        /\ rcalls[r] = 1
        /\ Len(results[r]) = 2
        /\ results[r][1].error # Some(ErrCancelled)
        /\ results[r][2].error = Some(ErrCancelled)
        /\ Len(events[r]) = 1
        /\ \E q \in DOMAIN fs :
              /\ fs[q].kind = "report"
              /\ \E n \in 1..Len(fs[q].results) :
                    fs[q].results[n] = results[r][2]

\* The placement rule for one stamper: rect is where the logo went on a
\* canvas of width x height (lengths of rect in units of 1 / rect.den),
\* margin is the margin in the same units, up says whether y grows upwards.
FollowsRule(rect, width, height, position, margin, up) ==
    LET canvas_w == width * rect.den
        canvas_h == height * rect.den
        max_x == Max(canvas_w - rect.w, 0)
        max_y == Max(canvas_h - rect.h, 0)
        low_x == Min(margin, max_x)
        low_y == Min(margin, max_y)
        high_x == Min(Max(canvas_w - rect.w - margin, 0), max_x)
        high_y == Min(Max(canvas_h - rect.h - margin, 0), max_y)
        at_left == position \in {"top-left", "bottom-left"}
        at_top == position \in {"top-left", "top-right"}
        at_low_y == (at_top /\ ~up) \/ (~at_top /\ up)
        gap_x == IF at_left THEN rect.x ELSE canvas_w - rect.w - rect.x
        gap_y == IF at_low_y THEN rect.y ELSE canvas_h - rect.h - rect.y
    IN  /\ rect.x = IF at_left THEN low_x ELSE high_x
        /\ rect.y = IF at_low_y THEN low_y ELSE high_y
        /\ (rect.w <= canvas_w /\ rect.h <= canvas_h)
              => /\ gap_x = Min(margin, max_x)
                 /\ gap_y = Min(margin, max_y)
                 /\ gap_x >= 0 /\ gap_x <= margin
                 /\ gap_y >= 0 /\ gap_y <= margin

\* C25: both stampers place the logo by the rule, for every corner, with a
\* margin of the payload's percentage of the short side - a percentage
\* between 0 and 20, the payload's own when that is a number (rounded to
\* whole pixels by the image stamper).  The image axis runs top-down, the
\* PDF axis bottom-up.
C25_MarginThenClamp ==
    (arg # None /\ arg[1].fn = "place") =>
        LET a == arg[1]
            short_side == Min(a.width, a.height)
            percent == a.value.margin_percent
        IN  /\ \E m \in 0..20 :
                  /\ percent.k = "fin" => m = percent.v
                  /\ FollowsRule(ret[1].image, a.width, a.height,
                                 a.value.position,
                                 Round(short_side * m, 100), FALSE)
            /\ \E m \in 0..20 :
                  /\ percent.k = "fin" => m = percent.v
                  /\ FollowsRule(ret[1].pdf, a.width, a.height,
                                 a.value.position,
                                 (short_side * m * ret[1].pdf.den) \div 100,
                                 TRUE)

\* C26: while a run that registered request id R is in progress (between
\* its begin_cancellation_request and the drop of its guard) the registry
\* holds an entry for R, and a cancel for R issued meanwhile returns true.
C26_EntryHeld ==
    \A r \in Runs : InRun(r) => rid[r] \in DOMAIN registry

C26_CancelFound ==
    nCancels' # nCancels =>
        ((\E r \in Runs : InRun(r) /\ rid[r] = lastCancel'[1].id)
            => lastCancel'[1].ret)

C26_EntryWhileRunning == []C26_EntryHeld /\ [][C26_CancelFound]_vars

\* C27: a cancel for the request id of a progress-batch command that has
\* been invoked and has not returned - its worker may not have started
\* yet - returns true, and its flag is set afterwards.
C27_CancelStep ==
    nCancels' # nCancels =>
        \A r \in Runs :
            ( /\ rid[r] = lastCancel'[1].id
              /\ pc[r] \in {"spawned", "check", "stamp", "save", "report",
                            "rwrite"} )
            => /\ lastCancel'[1].ret
               /\ is_request_cancelled(registry', rid[r])

C27_CancelNeverLost == [][C27_CancelStep]_vars

\* C28: two runs at work at the same time never hold the same output path
\* or report path, and no write of either replaces a file that exists.
C28_NoSharedName ==
    /\ clobbered = {}
    /\ \A r1 \in Runs :
          \A r2 \in Runs \ {r1} :
             /\ outPath[r1] # None => /\ outPath[r1] # outPath[r2]
                                      /\ outPath[r1] # rpath[r2]
             /\ rpath[r1] # None => rpath[r1] # rpath[r2]

\* The cancel flag of the run's request id is set.
Flagged(r) == rid[r] # NoId /\ is_request_cancelled(registry, rid[r])

\* C29, count: of the files a run has finished, only the last can have
\* finished with the flag set - at most one file is completed after the
\* cancel - and a run that ended cancelled has one event per file
\* completed and the cancelled result for every other path.
C29_AtMostOneMore ==
    \A r \in Runs :
        /\ \A i \in 1..(Len(midCancel[r]) - 1) : ~midCancel[r][i]
        /\ how[r] = "cancelled" =>
              /\ Len(events[r]) = index[r]
              /\ Len(results[r]) = Len(paths[r])
              /\ \A i \in (index[r] + 1)..Len(paths[r]) :
                    results[r][i] = [input_path |-> paths[r][i], ok |-> FALSE,
                                     output_path |-> None,
                                     error |-> Some(ErrCancelled)]

\* C29, steps: with the flag set, an event is only emitted by the file
\* that was under way, and the check before the next file ends the loop.
C29_AfterCancel ==
    \A r \in Runs :
        Flagged(r) =>
            /\ Len(events'[r]) > Len(events[r]) =>
                  /\ pc[r] \in {"stamp", "save"}
                  /\ pc'[r] = "check"
                  /\ Len(events'[r]) = Len(events[r]) + 1
            /\ (pc[r] = "check" /\ pc'[r] # "check"
                    /\ index[r] < Len(paths[r]))
                  => /\ pc'[r] = "report"
                     /\ how'[r] = "cancelled"
                     /\ index'[r] = index[r]
                     /\ events'[r] = events[r]

\* C29, response: a run whose flag is set returns.
C29_Returns ==
    \A r \in Runs : (Flagged(r) /\ InRun(r)) ~> (pc[r] = "done")

C29_BoundedResponse ==
    /\ []C29_AtMostOneMore
    /\ [][C29_AfterCancel]_vars
    /\ C29_Returns

\* The cancel came while the first of two files was under way: that file
\* was completed with its event, the second got the cancelled result and
\* the run has returned.
C29_Witness ==
    \E r \in Runs :
        /\ pc[r] = "done"
        /\ how[r] = "cancelled"
        /\ lastCancel = Some([id |-> rid[r], ret |-> TRUE])
        /\ midCancel[r] = <<TRUE>>
        /\ Len(events[r]) = 1
        /\ Len(results[r]) = 2
        /\ results[r][1].error # Some(ErrCancelled)
        /\ results[r][2].error = Some(ErrCancelled)

\* C30: a file with a per-path size v is resolved as the batch settings with
\* v as their explicit size percentage would be: a finite v gives v brought
\* into [1, 300] for an image and into [1, 50] for a PDF, a v that is not
\* finite gives the ratio of the batch's preset (ratios in hundredths).
C30_OverrideAsExplicit ==
    \A r \in Runs :
        \A i \in 1..Len(calls[r]) :
            ( /\ sizeBy[r] # None
              /\ paths[r][i] \in DOMAIN sizeBy[r][1]
              /\ calls[r][i].stamper # "none" )
            => LET v == sizeBy[r][1][paths[r][i]]
                   image == calls[r][i].stamper = "image"
                   hi == IF image THEN 300 ELSE 50
                   explicit == [settings[r] EXCEPT !.size_percent = Some(v)]
                   applied == IF image
                           THEN image_try_from(calls[r][i].settings)
                           ELSE pdf_try_from(calls[r][i].settings)
                   same == IF image THEN image_try_from(explicit)
                           ELSE pdf_try_from(explicit)
                   label == settings[r].size_preset
               IN  /\ applied.ok
                   /\ same.ok
                   /\ applied.val = same.val
                   /\ v.k = "fin" =>
                         applied.val.size_ratio =
                             (IF v.v < 1 THEN 1 ELSE IF v.v > hi THEN hi
                              ELSE v.v)
                   /\ v.k # "fin" =>
                         applied.val.size_ratio =
                             (IF label = "small" THEN 8
                              ELSE IF label = "medium" THEN 12 ELSE 16)


====
